---------------------------- MODULE Spec2Model ----------------------------
(***************************************************************************)
(* Santa Platformer: the player state machine, the enemy patrol, the       *)
(* per-axis collision resolution and the game/level progression of         *)
(* src/game.py, src/player.py, src/enemy.py, src/level.py, src/physics.py. *)
(*                                                                         *)
(* Numbers.  Python floats that carry one decimal (GRAVITY = 0.6, the      *)
(* enemy speeds 1.5, 1.7, 2.2, SPEED_BOOST_MULTIPLIER = 1.8) are kept in   *)
(* tenths: a name ending in 10 is the value times ten.  int(f), and the    *)
(* conversion pygame applies when a float is stored into a Rect coordinate,*)
(* truncate toward zero (Trunc10).  The arithmetic is exact decimal        *)
(* arithmetic; binary rounding of the float sums is not modelled.          *)
(* Times are milliseconds of pygame.time.get_ticks().                      *)
(***************************************************************************)
EXTENDS Integers, Sequences, FiniteSets, TLC

VARIABLES
    player,               \* Game.player / the Player under test
    lm,                   \* Game.level_manager
    lives,                \* Game.lives
    score,                \* Game.score
    level_complete_time,  \* Game.level_complete_time (None or <<t>>)
    now,                  \* Game.now
    levels_data,          \* the levels_data argument Game was constructed with
    delayed,              \* ms spent in pygame.time.delay() during the last frame
    frame,                \* frames executed so far
    ev,                   \* what the last frame did (observation only)
    enemy,                \* the Enemy under test
    plats,                \* the platform list handed to the resolution under test
    call                  \* the last method call under test: name, result, state before

vars == <<player, lm, lives, score, level_complete_time, now,
          levels_data, delayed, frame, ev, enemy, plats, call>>

-----------------------------------------------------------------------------
(* src/constants.py *)

SCREEN_WIDTH == 800
SCREEN_HEIGHT == 600
FPS == 60
GRAVITY10 == 6
MAX_FALL == 15
BASE_SPEED == 5
BASE_JUMP == -13
PLAYER_WIDTH == 40
PLAYER_HEIGHT == 60
STARTING_LIVES == 3
DOUBLE_JUMP_DURATION == 15000
SPEED_BOOST_DURATION == 8000
INVINCIBILITY_DURATION == 6000
SPEED_BOOST_MULTIPLIER10 == 18
RESPAWN_INVINCIBILITY_DURATION == 1200
LEVEL_COMPLETE_DELAY == 3000
GROUND_HEIGHT == 40
GAME_OVER_PAUSE == 1200
VICTORY_PAUSE == 3000

Kinds == {"speed_boost", "double_jump", "invincibility"}

None == << >>
Some(t) == << t >>

-----------------------------------------------------------------------------
(* Bounds of the model *)

MaxFrames == 6       \* frames of one explored session in a one-room table
MaxFramesA == 4      \* frames of one explored session in a table that can be completed
MaxSkew == 1         \* ms the clock may advance between two readings of one frame
MaxJumpEvents == 1   \* jump KEYDOWN events delivered in one frame
MaxPlats == 2        \* platforms in a list handed to a resolution under test
MaxCalls == 3        \* method calls made on an object under test
MaxPatrol == 3       \* the right end of the patrol ranges of an enemy under test
MaxOver == 2         \* how far outside the table an index handed to load_level lies
MaxFallFrames == 30  \* frames of one explored session in the tall room
MaxFramesG == 4      \* frames of one explored session among enemies
MaxFramesLive == 2   \* frames counted of a session that goes on
MaxWait == 2         \* completion delays for which frames go on past the budget while a completion is pending

-----------------------------------------------------------------------------
(* Numbers and rectangles *)

\* int(f) for f = n/10: truncation toward zero.
Trunc10(n) == IF n >= 0 THEN n \div 10 ELSE -((-n) \div 10)

Abs(n) == IF n < 0 THEN -n ELSE n

Rect(x, y, w, h) == [x |-> x, y |-> y, w |-> w, h |-> h]

\* pygame.Rect.colliderect: strict overlap on both axes.
colliderect(a, b) ==
    /\ a.x < b.x + b.w
    /\ b.x < a.x + a.w
    /\ a.y < b.y + b.h
    /\ b.y < a.y + a.h

-----------------------------------------------------------------------------
(* src/enemy.py *)

\* Enemy.__init__
Enemy(x, y, w, h, patrol_min_x, patrol_max_x, speed10) ==
    [x |-> x, y |-> y, w |-> w, h |-> h,
     vx10 |-> speed10,
     patrol_min |-> patrol_min_x,
     patrol_max |-> patrol_max_x,
     speed10 |-> speed10,
     facing_right |-> TRUE]

EnemyRect(e) == Rect(e.x, e.y, e.w, e.h)

\* Enemy.update with the two assignments rect.x = patrol_min / patrol_max lost:
\* the enemy turns at a boundary without being put back on it.
enemy_update_unclamped(e) ==
    LET x1 == Trunc10(e.x * 10 + e.vx10)
    IN  IF x1 < e.patrol_min
        THEN [e EXCEPT !.x = x1, !.vx10 = Abs(e.speed10), !.facing_right = TRUE]
        ELSE IF x1 > e.patrol_max
        THEN [e EXCEPT !.x = x1, !.vx10 = -Abs(e.speed10), !.facing_right = FALSE]
        ELSE [e EXCEPT !.x = x1]

\* Enemy.update
enemy_update(e) ==
    LET x1 == Trunc10(e.x * 10 + e.vx10)      \* self.rect.x += self.vx
    IN  IF x1 < e.patrol_min
        THEN [e EXCEPT !.x = e.patrol_min,
                       !.vx10 = Abs(e.speed10),
                       !.facing_right = TRUE]
        ELSE IF x1 > e.patrol_max
        THEN [e EXCEPT !.x = e.patrol_max,
                       !.vx10 = -Abs(e.speed10),
                       !.facing_right = FALSE]
        ELSE [e EXCEPT !.x = x1]

-----------------------------------------------------------------------------
(* src/player.py *)

\* Player.__init__ (facing_right and the animation fields are cosmetic and
\* left out)
Player(start_x, start_y) ==
    [x10 |-> start_x * 10,
     y10 |-> start_y * 10,
     rx |-> start_x,
     ry |-> start_y,
     vx10 |-> 0,
     vy10 |-> 0,
     speed10 |-> BASE_SPEED * 10,
     max_jumps |-> 1,
     jumps_remaining |-> 1,
     power_until |-> [k \in Kinds |-> 0],
     hit_invincible_until |-> 0]

PlayerRect(p) == Rect(p.rx, p.ry, PLAYER_WIDTH, PLAYER_HEIGHT)

\* Player.is_invincible with `and` in the place of `or`.
is_invincible_both_timers(p, now_ms) ==
    /\ now_ms < p.power_until["invincibility"]
    /\ now_ms < p.hit_invincible_until

\* Player.is_invincible with the post-respawn grace forgotten.
is_invincible_powerup_only(p, now_ms) ==
    now_ms < p.power_until["invincibility"]

\* Player.is_invincible
is_invincible(p, now_ms) ==
    \/ now_ms < p.power_until["invincibility"]
    \/ now_ms < p.hit_invincible_until

\* Player.update_powerups with <= in the place of <: the effects last through
\* the expiry timestamp.
update_powerups_closed(p, now_ms) ==
    [p EXCEPT
       !.speed10 = IF now_ms <= p.power_until["speed_boost"]
                   THEN BASE_SPEED * SPEED_BOOST_MULTIPLIER10
                   ELSE BASE_SPEED * 10,
       !.max_jumps = IF now_ms <= p.power_until["double_jump"] THEN 2 ELSE 1]

\* Player.update_powerups with self.speed in the place of self.base_speed in
\* the boosted branch: the boost compounds from call to call.
update_powerups_compounding(p, now_ms) ==
    [p EXCEPT
       !.speed10 = IF now_ms < p.power_until["speed_boost"]
                   THEN (p.speed10 * SPEED_BOOST_MULTIPLIER10) \div 10
                   ELSE BASE_SPEED * 10,
       !.max_jumps = IF now_ms < p.power_until["double_jump"] THEN 2 ELSE 1]

\* Player.update_powerups
update_powerups(p, now_ms) ==
    [p EXCEPT
       !.speed10 = IF now_ms < p.power_until["speed_boost"]
                   THEN BASE_SPEED * SPEED_BOOST_MULTIPLIER10
                   ELSE BASE_SPEED * 10,
       !.max_jumps = IF now_ms < p.power_until["double_jump"] THEN 2 ELSE 1]

\* Player.apply_powerup adding the duration to a timer that has not expired.
apply_powerup_stacking(p, ptype, duration_ms, now_ms) ==
    LET from == IF p.power_until[ptype] > now_ms THEN p.power_until[ptype] ELSE now_ms
        p1 == [p EXCEPT !.power_until[ptype] = from + duration_ms]
    IN  IF ptype = "double_jump" /\ now_ms < p1.power_until["double_jump"]
        THEN [p1 EXCEPT !.jumps_remaining = p1.max_jumps]
        ELSE p1

\* Player.apply_powerup
apply_powerup(p, ptype, duration_ms, now_ms) ==
    LET p1 == [p EXCEPT !.power_until[ptype] = now_ms + duration_ms]
    IN  IF ptype = "double_jump" /\ now_ms < p1.power_until["double_jump"]
        THEN [p1 EXCEPT !.jumps_remaining = p1.max_jumps]
        ELSE p1

\* Player.respawn without the assignments vx = 0 and vy = 0.
respawn_keeps_velocity(p, start_x, start_y, ticks) ==
    [p EXCEPT !.x10 = start_x * 10,
              !.y10 = start_y * 10,
              !.rx = start_x,
              !.ry = start_y,
              !.hit_invincible_until = ticks + RESPAWN_INVINCIBILITY_DURATION]

\* Player.respawn without the assignment rect.topleft = (start_x, start_y).
respawn_keeps_rect(p, start_x, start_y, ticks) ==
    [p EXCEPT !.x10 = start_x * 10,
              !.y10 = start_y * 10,
              !.vx10 = 0,
              !.vy10 = 0,
              !.hit_invincible_until = ticks + RESPAWN_INVINCIBILITY_DURATION]

\* Player.respawn; ticks is the reading of pygame.time.get_ticks() it makes.
respawn(p, start_x, start_y, ticks) ==
    [p EXCEPT !.x10 = start_x * 10,
              !.y10 = start_y * 10,
              !.rx = start_x,
              !.ry = start_y,
              !.vx10 = 0,
              !.vy10 = 0,
              !.hit_invincible_until = ticks + RESPAWN_INVINCIBILITY_DURATION]

\* Player.jump without the test of jumps_remaining.
jump_unguarded(p) ==
    [p EXCEPT !.vy10 = BASE_JUMP * 10,
              !.jumps_remaining = p.jumps_remaining - 1]

\* Player.jump: the player after the call.
jump(p) ==
    IF p.jumps_remaining > 0
    THEN [p EXCEPT !.vy10 = BASE_JUMP * 10,
                   !.jumps_remaining = p.jumps_remaining - 1]
    ELSE p

\* Player.jump: the value returned.
jump_result(p) == p.jumps_remaining > 0

\* The loop body of Player.resolve_horizontal_collisions with rect.left in the
\* place of rect.right for a player moving right.
resolve_horizontal_step_left_edge(p, plat) ==
    IF colliderect(PlayerRect(p), plat)
    THEN LET rx1 == IF p.vx10 > 0 THEN plat.x
                    ELSE IF p.vx10 < 0 THEN plat.x + plat.w
                    ELSE p.rx
         IN  [p EXCEPT !.rx = rx1, !.x10 = rx1 * 10]
    ELSE p

\* One pass of the loop body of Player.resolve_horizontal_collisions.
resolve_horizontal_step(p, plat) ==
    IF colliderect(PlayerRect(p), plat)
    THEN LET rx1 == IF p.vx10 > 0 THEN plat.x - PLAYER_WIDTH
                    ELSE IF p.vx10 < 0 THEN plat.x + plat.w
                    ELSE p.rx
         IN  [p EXCEPT !.rx = rx1, !.x10 = rx1 * 10]
    ELSE p

RECURSIVE resolve_horizontal_loop(_, _, _)
resolve_horizontal_loop(p, platforms, i) ==
    IF i > Len(platforms) THEN p
    ELSE resolve_horizontal_loop(resolve_horizontal_step(p, platforms[i]), platforms, i + 1)

\* Player.resolve_horizontal_collisions
resolve_horizontal_collisions(p, platforms) ==
    resolve_horizontal_loop([p EXCEPT !.rx = Trunc10(p.x10)], platforms, 1)

\* The loop body of Player.resolve_vertical_collisions without the refill of
\* jumps_remaining on landing.
resolve_vertical_step_no_refill(s, plat) ==
    LET p == s.p
    IN  IF colliderect(PlayerRect(p), plat)
        THEN IF p.vy10 > 0
             THEN [p |-> [p EXCEPT !.ry = plat.y - PLAYER_HEIGHT,
                                   !.vy10 = 0,
                                   !.y10 = (plat.y - PLAYER_HEIGHT) * 10],
                   on_ground |-> TRUE]
             ELSE IF p.vy10 < 0
             THEN [p |-> [p EXCEPT !.ry = plat.y + plat.h,
                                   !.vy10 = 0,
                                   !.y10 = (plat.y + plat.h) * 10],
                   on_ground |-> s.on_ground]
             ELSE s
        ELSE s

\* The loop body of Player.resolve_vertical_collisions without the two
\* assignments vy = 0: every overlapping platform snaps the player in turn.
resolve_vertical_step_keeps_vy(s, plat) ==
    LET p == s.p
    IN  IF colliderect(PlayerRect(p), plat)
        THEN IF p.vy10 > 0
             THEN [p |-> [p EXCEPT !.ry = plat.y - PLAYER_HEIGHT,
                                   !.y10 = (plat.y - PLAYER_HEIGHT) * 10,
                                   !.jumps_remaining = p.max_jumps],
                   on_ground |-> TRUE]
             ELSE IF p.vy10 < 0
             THEN [p |-> [p EXCEPT !.ry = plat.y + plat.h,
                                   !.y10 = (plat.y + plat.h) * 10],
                   on_ground |-> s.on_ground]
             ELSE s
        ELSE s

\* The loop body of Player.resolve_vertical_collisions with the refill of
\* jumps_remaining made in the ceiling branch too.
resolve_vertical_step_refills_on_ceiling(s, plat) ==
    LET p == s.p
    IN  IF colliderect(PlayerRect(p), plat)
        THEN IF p.vy10 > 0
             THEN [p |-> [p EXCEPT !.ry = plat.y - PLAYER_HEIGHT,
                                   !.vy10 = 0,
                                   !.y10 = (plat.y - PLAYER_HEIGHT) * 10,
                                   !.jumps_remaining = p.max_jumps],
                   on_ground |-> TRUE]
             ELSE IF p.vy10 < 0
             THEN [p |-> [p EXCEPT !.ry = plat.y + plat.h,
                                   !.vy10 = 0,
                                   !.y10 = (plat.y + plat.h) * 10,
                                   !.jumps_remaining = p.max_jumps],
                   on_ground |-> s.on_ground]
             ELSE s
        ELSE s

\* One pass of the loop body of Player.resolve_vertical_collisions, on the
\* pair (player, on_ground).
resolve_vertical_step(s, plat) ==
    LET p == s.p
    IN  IF colliderect(PlayerRect(p), plat)
        THEN IF p.vy10 > 0
             THEN [p |-> [p EXCEPT !.ry = plat.y - PLAYER_HEIGHT,
                                   !.vy10 = 0,
                                   !.y10 = (plat.y - PLAYER_HEIGHT) * 10,
                                   !.jumps_remaining = p.max_jumps],
                   on_ground |-> TRUE]
             ELSE IF p.vy10 < 0
             THEN [p |-> [p EXCEPT !.ry = plat.y + plat.h,
                                   !.vy10 = 0,
                                   !.y10 = (plat.y + plat.h) * 10],
                   on_ground |-> s.on_ground]
             ELSE s
        ELSE s

RECURSIVE resolve_vertical_loop(_, _, _)
resolve_vertical_loop(s, platforms, i) ==
    IF i > Len(platforms) THEN s
    ELSE resolve_vertical_loop(resolve_vertical_step(s, platforms[i]), platforms, i + 1)

\* Player.resolve_vertical_collisions: [p |-> the player after, on_ground |-> the result].
resolve_vertical_collisions(p, platforms) ==
    resolve_vertical_loop([p |-> [p EXCEPT !.ry = Trunc10(p.y10)], on_ground |-> FALSE],
                          platforms, 1)

-----------------------------------------------------------------------------
(* src/levels.py: level tables *)

\* create_level_data
create_level_data(width, height, player_start, goal, platforms, presents, enemies, powerups) ==
    [width |-> width, height |-> height, player_start |-> player_start,
     goal |-> goal, platforms |-> platforms, presents |-> presents,
     enemies |-> enemies, powerups |-> powerups]

PowerupData(rect, type) == [rect |-> rect, type |-> type]

\* An enemy tuple (x, y, w, h, patrol_min_x, patrol_max_x, speed) of the level data.
EnemyData(x, y, w, h, patrol_min_x, patrol_max_x, speed10) ==
    <<x, y, w, h, patrol_min_x, patrol_max_x, speed10>>

\* LEVELS, the module's own table: "Snowy Village" and "Icicle Climb".
LEVELS ==
    << create_level_data(1600, 600, <<80, 480>>, Rect(1500, 480, 60, 80),
          << Rect(200, 430, 160, 20), Rect(420, 330, 160, 20), Rect(700, 460, 200, 20),
             Rect(1100, 380, 200, 20), Rect(1350, 300, 180, 20) >>,
          << Rect(220, 400, 30, 30), Rect(460, 300, 30, 30), Rect(760, 430, 30, 30),
             Rect(1120, 350, 30, 30), Rect(1370, 270, 30, 30) >>,
          << EnemyData(600, 520, 40, 40, 500, 740, 20),
             EnemyData(1300, 340, 40, 40, 1250, 1450, 15) >>,
          << PowerupData(Rect(520, 480, 24, 24), "double_jump"),
             PowerupData(Rect(900, 420, 24, 24), "speed_boost") >>),
       create_level_data(1200, 800, <<60, 700>>, Rect(1100, 700, 60, 80),
          << Rect(150, 640, 130, 20), Rect(320, 520, 130, 20), Rect(510, 400, 130, 20),
             Rect(720, 280, 130, 20), Rect(920, 160, 130, 20) >>,
          << Rect(170, 510, 30, 30), Rect(340, 490, 30, 30), Rect(530, 370, 30, 30),
             Rect(740, 250, 30, 30), Rect(940, 130, 30, 30) >>,
          << EnemyData(400, 720, 40, 40, 300, 520, 22),
             EnemyData(800, 720, 40, 40, 760, 980, 17) >>,
          << PowerupData(Rect(600, 360, 24, 24), "invincibility") >>) >>

\* The levels_data arguments below are rooms with the ground top at y = 72, so
\* that a standing player has y = 12.  In the roofed rooms a ceiling at y < 12
\* stops a jump in the frame it starts.

\* Two roofed rooms with a wall on the left, x in 20..30.  Room 0: the goal is
\* touched at x = 20 (the start), the present at x >= 25, the patrolling enemy
\* at x = 30.  Room 1: the start position touches the present, the enemy and
\* the goal.
LevelsA ==
    << create_level_data(70, 112, <<20, 12>>, Rect(0, 32, 21, 40),
          << Rect(0, 0, 70, 12), Rect(0, 12, 20, 60) >>,
          << Rect(64, 60, 6, 10) >>,
          << EnemyData(67, 62, 3, 10, 67, 69, 30) >>,
          << >>),
       create_level_data(70, 112, <<20, 12>>, Rect(0, 32, 21, 40),
          << Rect(0, 0, 70, 12), Rect(0, 12, 20, 60) >>,
          << Rect(30, 60, 5, 10) >>,
          << EnemyData(30, 62, 8, 10, 30, 30, 10) >>,
          << >>) >>

\* One roofed room as wide as the player (x = 0).  The start position lies
\* under the level: the bottom boundary lifts the player to y = 52 in the first
\* frame of a life and the ground to y = 12 in the next.  Both positions touch
\* the invincibility and speed-boost pickups and an enemy that holds its place.
\* The present and the goal lie under the level, out of reach.
LevelsB ==
    << create_level_data(40, 112, <<0, 112>>, Rect(0, 300, 1, 1),
          << Rect(0, 0, 40, 12) >>,
          << Rect(39, 300, 1, 1) >>,
          << EnemyData(10, 62, 8, 10, 10, 10, 10) >>,
          << PowerupData(Rect(0, 60, 3, 10), "invincibility"),
             PowerupData(Rect(30, 60, 3, 10), "speed_boost") >>) >>

\* One open room as wide as the player (x = 0) and 114 high, with a platform
\* (top at y = 72) over the ground; the player starts one pixel above it and
\* can jump to the top of the level.  The present and the goal are out of reach.
LevelsC ==
    << create_level_data(40, 114, <<0, 11>>, Rect(0, 100, 1, 1),
          << Rect(0, 72, 40, 2) >>,
          << Rect(39, 100, 1, 1) >>,
          << >>,
          << >>) >>

\* One roofed room as wide as the player (x = 0): the start position touches
\* the double-jump pickup.  The present and the goal are out of reach.
LevelsD ==
    << create_level_data(40, 112, <<0, 12>>, Rect(0, 100, 1, 1),
          << Rect(0, 0, 40, 12) >>,
          << Rect(39, 100, 1, 1) >>,
          << >>,
          << PowerupData(Rect(0, 60, 3, 10), "double_jump") >>) >>

\* One roofed room as wide as the player (x = 0) and the last of its table:
\* the start position touches the only present and the goal.
LevelsE ==
    << create_level_data(40, 112, <<0, 12>>, Rect(0, 32, 1, 40),
          << Rect(0, 0, 40, 12) >>,
          << Rect(39, 60, 1, 10) >>,
          << >>,
          << >>) >>

\* One open room as wide as the player (x = 0) and as high as the screen,
\* with nothing in it: the player starts in the air at the top and falls 500
\* pixels to the ground.  The present and the goal are out of reach.
LevelsF ==
    << create_level_data(40, SCREEN_HEIGHT, <<0, 0>>, Rect(0, 900, 1, 1),
          << >>,
          << Rect(39, 900, 1, 1) >>,
          << >>,
          << >>) >>

\* Two roofed rooms five pixels wider than the player (x in 0..5).  Room 0:
\* two enemies that hold their places, side by side, both touched at every
\* x; the goal is touched at x = 0 (the start), the present at x = 5.
\* Room 1: one enemy that holds its place, touched at every x; the present
\* and the goal lie under the level, out of reach.
LevelsG ==
    << create_level_data(45, 112, <<0, 12>>, Rect(0, 32, 1, 40),
          << Rect(0, 0, 45, 12) >>,
          << Rect(44, 60, 1, 10) >>,
          << EnemyData(0, 62, 20, 10, 0, 0, 10),
             EnemyData(20, 62, 25, 10, 20, 20, 10) >>,
          << >>),
       create_level_data(45, 112, <<0, 12>>, Rect(0, 300, 1, 1),
          << Rect(0, 0, 45, 12) >>,
          << Rect(44, 300, 1, 1) >>,
          << EnemyData(0, 62, 20, 10, 0, 0, 10) >>,
          << >>) >>

\* The level list a table name stands for.
Table(name) ==
    CASE name = "LEVELS" -> LEVELS
      [] name = "A" -> LevelsA
      [] name = "B" -> LevelsB
      [] name = "C" -> LevelsC
      [] name = "D" -> LevelsD
      [] name = "E" -> LevelsE
      [] name = "F" -> LevelsF
      [] name = "G" -> LevelsG

\* The levels_data arguments a session is constructed with.
SessionArgs == {"A", "B", "C", "D", "E"}

-----------------------------------------------------------------------------
(* src/level.py *)

\* LevelManager.load_level raises IndexError
load_level_raises(m, index) == ~(0 <= index /\ index < Len(Table(m.levels_data)))

\* LevelManager.load_level with the lower bound of the index test lost: a
\* negative index counts from the end of the table, as Python's list
\* indexing does.
load_level_wraps(m, index) ==
    IF index >= Len(Table(m.levels_data)) \/ index < 0 - Len(Table(m.levels_data)) THEN m
    ELSE LET data == Table(m.levels_data)[(index % Len(Table(m.levels_data))) + 1]
         IN  [m EXCEPT
                !.index = index,
                !.completed = FALSE,
                !.width = data.width,
                !.height = data.height,
                !.ground = Rect(0, data.height - GROUND_HEIGHT, data.width, GROUND_HEIGHT),
                !.platforms = data.platforms,
                !.player_start = data.player_start,
                !.goal = data.goal,
                !.presents = data.presents,
                !.powerups = data.powerups,
                !.enemies = [i \in 1..Len(data.enemies) |->
                                Enemy(data.enemies[i][1], data.enemies[i][2],
                                      data.enemies[i][3], data.enemies[i][4],
                                      data.enemies[i][5], data.enemies[i][6],
                                      data.enemies[i][7])],
                !.total_presents = Len(data.presents)]

\* LevelManager.load_level (present textures, background and overlay are
\* cosmetic and left out).  When the index is out of range the exception
\* leaves the manager as it was.
load_level(m, index) ==
    IF load_level_raises(m, index) THEN m
    ELSE LET data == Table(m.levels_data)[index + 1]
         IN  [m EXCEPT
                !.index = index,
                !.completed = FALSE,
                !.width = data.width,
                !.height = data.height,
                !.ground = Rect(0, data.height - GROUND_HEIGHT, data.width, GROUND_HEIGHT),
                !.platforms = data.platforms,
                !.player_start = data.player_start,
                !.goal = data.goal,
                !.presents = data.presents,
                !.powerups = data.powerups,
                !.enemies = [i \in 1..Len(data.enemies) |->
                                Enemy(data.enemies[i][1], data.enemies[i][2],
                                      data.enemies[i][3], data.enemies[i][4],
                                      data.enemies[i][5], data.enemies[i][6],
                                      data.enemies[i][7])],
                !.total_presents = Len(data.presents)]

\* LevelManager.__init__; "None" stands for a missing argument.
LevelManager(arg) ==
    load_level([levels_data |-> IF arg = "None" THEN "LEVELS" ELSE arg,
                completed |-> FALSE,
                index |-> 0,
                total_presents |-> 0,
                platforms |-> << >>,
                presents |-> << >>,
                powerups |-> << >>,
                enemies |-> << >>,
                ground |-> Rect(0, 0, 0, 0),
                goal |-> Rect(0, 0, 0, 0),
                player_start |-> <<0, 0>>,
                width |-> SCREEN_WIDTH,
                height |-> SCREEN_HEIGHT], 0)

\* LevelManager.next_level: the value returned.
next_level_result(m) == m.index + 1 < Len(Table(m.levels_data))

\* LevelManager.next_level without the call of load_level.
next_level_no_load(m) ==
    IF m.index + 1 < Len(Table(m.levels_data))
    THEN [m EXCEPT !.index = m.index + 1]
    ELSE m

\* LevelManager.next_level: the manager after the call.
next_level(m) ==
    IF m.index + 1 < Len(Table(m.levels_data))
    THEN load_level([m EXCEPT !.index = m.index + 1], m.index + 1)
    ELSE m

-----------------------------------------------------------------------------
(* src/game.py.  The operators below act on the record g of the Game's      *)
(* fields: player, lm, lives, score, level_complete_time, delayed, ev.      *)

\* The Game's fields that the snapshots of ev record.
Fields(g) ==
    [player |-> g.player, lm |-> g.lm, lives |-> g.lives, score |-> g.score,
     level_complete_time |-> g.level_complete_time]

\* What a frame has done so far: nothing.
EvNone ==
    [prog |-> "none",          \* handle_level_progression: none, waiting, advanced, victory
     prog_elapsed |-> 0,       \* the ms since the completion, as it computed them
     falling |-> FALSE,        \* vy > 0 when the vertical resolution began
     on_ground |-> FALSE,      \* the result of resolve_vertical_collisions
     bottom |-> FALSE,         \* the bottom clamp moved the player
     top |-> FALSE,            \* the top clamp moved the player
     phys |-> << >>,           \* rect.x, rect.y, level width, height when update_physics ended
     enemy_overlap |-> FALSE,  \* the player overlapped an enemy at the enemy check
     pu_active |-> FALSE,      \* now < power_until['invincibility'] at that check
     hit_active |-> FALSE,     \* now < hit_invincible_until at that check
     at_check |-> << >>,       \* the player's rect.x, rect.y at that check
     hit |-> "none",           \* handle_enemy_collision: none, respawn, game_over
     hit_pre |-> << >>,        \* the Game's fields when a call that respawned began
     hit_post |-> << >>,       \* the Game's fields when it returned
     goal |-> "none",          \* handle_goal_collision: none, warned, completed, already
     goal_pre |-> << >>,       \* the Game's fields when handle_goal_collision began
     prog_post |-> << >>,      \* the Game's fields when an advance or a victory returned
     collected |-> 0,          \* presents collected by the frame's present check
     left |-> 0,               \* presents left in the level after that check
     picked |-> {},            \* kinds of the power-ups applied by the power-up check
     vy_in |-> 0,              \* vy (tenths) when update_physics began
     vy_move |-> 0]            \* vy (tenths) that update_physics added to y

\* Game.__init__
Game(arg) ==
    LET m == LevelManager(arg)
    IN  [player |-> Player(m.player_start[1], m.player_start[2]),
         lm |-> m,
         lives |-> STARTING_LIVES,
         score |-> 0,
         level_complete_time |-> None,
         delayed |-> 0,
         ev |-> EvNone]

\* Game.restart_game without the reset of lives.
restart_game_keeps_lives(g) ==
    LET m == LevelManager("LEVELS")
    IN  [g EXCEPT !.lm = m,
                  !.player = Player(m.player_start[1], m.player_start[2]),
                  !.score = 0,
                  !.level_complete_time = None]

\* Game.restart_game without the reset of level_complete_time.
restart_game_keeps_timestamp(g) ==
    LET m == LevelManager("LEVELS")
    IN  [g EXCEPT !.lm = m,
                  !.player = Player(m.player_start[1], m.player_start[2]),
                  !.lives = STARTING_LIVES,
                  !.score = 0]

\* Game.restart_game with the completion flag carried over to the new level
\* manager and without the reset of level_complete_time.
restart_game_keeps_pending(g) ==
    LET m == [LevelManager("LEVELS") EXCEPT !.completed = g.lm.completed]
    IN  [g EXCEPT !.lm = m,
                  !.player = Player(m.player_start[1], m.player_start[2]),
                  !.lives = STARTING_LIVES,
                  !.score = 0]

\* Game.restart_game
restart_game(g) ==
    LET m == LevelManager("LEVELS")
    IN  [g EXCEPT !.lm = m,
                  !.player = Player(m.player_start[1], m.player_start[2]),
                  !.lives = STARTING_LIVES,
                  !.score = 0,
                  !.level_complete_time = None]

\* Game.handle_events without the test of jumps_remaining.
RECURSIVE handle_events_unguarded(_, _)
handle_events_unguarded(g, n) ==
    IF n = 0 THEN g
    ELSE handle_events_unguarded(
            [g EXCEPT !.player.vy10 = BASE_JUMP * 10,
                      !.player.jumps_remaining = g.player.jumps_remaining - 1], n - 1)

\* Game.handle_events: n jump key-down events; a quit event ends the session
\* and is not explored.
RECURSIVE handle_events(_, _)
handle_events(g, n) ==
    IF n = 0 THEN g
    ELSE LET p == g.player
             p1 == IF p.jumps_remaining > 0
                   THEN [p EXCEPT !.vy10 = BASE_JUMP * 10,
                                  !.jumps_remaining = p.jumps_remaining - 1]
                   ELSE p
         IN  handle_events([g EXCEPT !.player = p1], n - 1)

\* Game.handle_input
handle_input(g, left, right) ==
    LET p0 == [g.player EXCEPT !.vx10 = 0]
        p1 == IF left THEN [p0 EXCEPT !.vx10 = -p0.speed10] ELSE p0
        p2 == IF right THEN [p1 EXCEPT !.vx10 = p1.speed10] ELSE p1
    IN  [g EXCEPT !.player = p2]

\* Game.handle_game_victory without the call of restart_game.
handle_game_victory_no_restart(g) ==
    [g EXCEPT !.delayed = g.delayed + VICTORY_PAUSE]

\* Game.handle_game_victory
handle_game_victory(g) ==
    restart_game([g EXCEPT !.delayed = g.delayed + VICTORY_PAUSE])

\* Game.handle_level_progression with >= in the place of > LEVEL_COMPLETE_DELAY.
handle_level_progression_at_delay(g, ticks) ==
    IF g.lm.completed /\ g.level_complete_time # None
    THEN IF ticks - g.level_complete_time[1] >= LEVEL_COMPLETE_DELAY
         THEN IF next_level_result(g.lm)
              THEN LET m == next_level(g.lm)
                       a == [g EXCEPT !.lm = [m EXCEPT !.completed = FALSE],
                                      !.player = Player(m.player_start[1], m.player_start[2]),
                                      !.score = 0,
                                      !.level_complete_time = None,
                                      !.ev.prog = "advanced",
                                      !.ev.prog_elapsed = ticks - g.level_complete_time[1]]
                   IN  [a EXCEPT !.ev.prog_post = Fields(a)]
              ELSE LET v == handle_game_victory(
                               [g EXCEPT !.ev.prog = "victory",
                                         !.ev.prog_elapsed = ticks - g.level_complete_time[1]])
                   IN  [v EXCEPT !.ev.prog_post = Fields(v)]
         ELSE [g EXCEPT !.ev.prog = "waiting",
                        !.ev.prog_elapsed = ticks - g.level_complete_time[1]]
    ELSE g

\* Game.handle_level_progression with the player respawned at the start of
\* the next level, not replaced.
handle_level_progression_keeps_player(g, ticks) ==
    IF g.lm.completed /\ g.level_complete_time # None
    THEN IF ticks - g.level_complete_time[1] > LEVEL_COMPLETE_DELAY
         THEN IF next_level_result(g.lm)
              THEN LET m == next_level(g.lm)
                       a == [g EXCEPT !.lm = [m EXCEPT !.completed = FALSE],
                                      !.player = respawn(g.player, m.player_start[1],
                                                         m.player_start[2], ticks),
                                      !.score = 0,
                                      !.level_complete_time = None,
                                      !.ev.prog = "advanced",
                                      !.ev.prog_elapsed = ticks - g.level_complete_time[1]]
                   IN  [a EXCEPT !.ev.prog_post = Fields(a)]
              ELSE LET v == handle_game_victory(
                               [g EXCEPT !.ev.prog = "victory",
                                         !.ev.prog_elapsed = ticks - g.level_complete_time[1]])
                   IN  [v EXCEPT !.ev.prog_post = Fields(v)]
         ELSE [g EXCEPT !.ev.prog = "waiting",
                        !.ev.prog_elapsed = ticks - g.level_complete_time[1]]
    ELSE g

\* Game.handle_level_progression; ticks is its reading of the clock.
handle_level_progression(g, ticks) ==
    IF g.lm.completed /\ g.level_complete_time # None
    THEN IF ticks - g.level_complete_time[1] > LEVEL_COMPLETE_DELAY
         THEN IF next_level_result(g.lm)
              THEN LET m == next_level(g.lm)
                       a == [g EXCEPT !.lm = [m EXCEPT !.completed = FALSE],
                                      !.player = Player(m.player_start[1], m.player_start[2]),
                                      !.score = 0,
                                      !.level_complete_time = None,
                                      !.ev.prog = "advanced",
                                      !.ev.prog_elapsed = ticks - g.level_complete_time[1]]
                   IN  [a EXCEPT !.ev.prog_post = Fields(a)]
              ELSE LET v == handle_game_victory(
                               [g EXCEPT !.ev.prog = "victory",
                                         !.ev.prog_elapsed = ticks - g.level_complete_time[1]])
                   IN  [v EXCEPT !.ev.prog_post = Fields(v)]
         ELSE [g EXCEPT !.ev.prog = "waiting", !.ev.prog_elapsed = ticks - g.level_complete_time[1]]
    ELSE g

\* Game.update without the call of handle_level_progression.
update_without_progression(g, now_ms, ticks) ==
    [g EXCEPT !.player = update_powerups(g.player, now_ms)]

\* Game.update
update(g, now_ms, ticks) ==
    handle_level_progression([g EXCEPT !.player = update_powerups(g.player, now_ms)], ticks)

\* Game.update_physics without the clamp of rect.top to the top of the level.
update_physics_no_top_clamp(g) ==
    LET m == g.lm
        p0 == g.player
        vy0 == p0.vy10 + GRAVITY10
        p1 == [p0 EXCEPT !.vy10 = IF vy0 > MAX_FALL * 10 THEN MAX_FALL * 10 ELSE vy0,
                         !.x10 = p0.x10 + p0.vx10]
        all_platforms == <<m.ground>> \o m.platforms
        p2 == resolve_horizontal_collisions(p1, all_platforms)
        p3 == IF p2.rx < 0 THEN [p2 EXCEPT !.rx = 0, !.x10 = 0] ELSE p2
        p4 == IF p3.rx + PLAYER_WIDTH > m.width
              THEN [p3 EXCEPT !.rx = m.width - PLAYER_WIDTH,
                              !.x10 = (m.width - PLAYER_WIDTH) * 10]
              ELSE p3
        p5 == [p4 EXCEPT !.y10 = p4.y10 + p4.vy10]
        rv == resolve_vertical_collisions(p5, all_platforms)
        p6 == rv.p
        p7 == p6
        p8 == IF p7.ry + PLAYER_HEIGHT > m.height
              THEN [p7 EXCEPT !.ry = m.height - PLAYER_HEIGHT,
                              !.y10 = (m.height - PLAYER_HEIGHT) * 10,
                              !.vy10 = 0,
                              !.jumps_remaining = p7.max_jumps]
              ELSE p7
        p9 == [p8 EXCEPT !.rx = Trunc10(p8.x10), !.ry = Trunc10(p8.y10)]
    IN  [g EXCEPT !.player = p9,
                  !.lm.enemies = [i \in 1..Len(m.enemies) |-> enemy_update(m.enemies[i])],
                  !.ev.falling = p5.vy10 > 0,
                  !.ev.vy_in = p0.vy10,
                  !.ev.vy_move = p5.vy10,
                  !.ev.on_ground = rv.on_ground,
                  !.ev.top = FALSE,
                  !.ev.phys = <<p9.rx, p9.ry, m.width, m.height>>,
                  !.ev.bottom = p7.ry + PLAYER_HEIGHT > m.height]

\* Game.update_physics without the cap of vy at MAX_FALL.
update_physics_uncapped(g) ==
    LET m == g.lm
        p0 == g.player
        vy0 == p0.vy10 + GRAVITY10
        p1 == [p0 EXCEPT !.vy10 = vy0,
                         !.x10 = p0.x10 + p0.vx10]
        all_platforms == <<m.ground>> \o m.platforms
        p2 == resolve_horizontal_collisions(p1, all_platforms)
        p3 == IF p2.rx < 0 THEN [p2 EXCEPT !.rx = 0, !.x10 = 0] ELSE p2
        p4 == IF p3.rx + PLAYER_WIDTH > m.width
              THEN [p3 EXCEPT !.rx = m.width - PLAYER_WIDTH,
                              !.x10 = (m.width - PLAYER_WIDTH) * 10]
              ELSE p3
        p5 == [p4 EXCEPT !.y10 = p4.y10 + p4.vy10]
        rv == resolve_vertical_collisions(p5, all_platforms)
        p6 == rv.p
        p7 == IF p6.ry < 0 THEN [p6 EXCEPT !.ry = 0, !.y10 = 0] ELSE p6
        p8 == IF p7.ry + PLAYER_HEIGHT > m.height
              THEN [p7 EXCEPT !.ry = m.height - PLAYER_HEIGHT,
                              !.y10 = (m.height - PLAYER_HEIGHT) * 10,
                              !.vy10 = 0,
                              !.jumps_remaining = p7.max_jumps]
              ELSE p7
        p9 == [p8 EXCEPT !.rx = Trunc10(p8.x10), !.ry = Trunc10(p8.y10)]
    IN  [g EXCEPT !.player = p9,
                  !.lm.enemies = [i \in 1..Len(m.enemies) |-> enemy_update(m.enemies[i])],
                  !.ev.falling = p5.vy10 > 0,
                  !.ev.vy_in = p0.vy10,
                  !.ev.vy_move = p5.vy10,
                  !.ev.on_ground = rv.on_ground,
                  !.ev.top = p6.ry < 0,
                  !.ev.phys = <<p9.rx, p9.ry, m.width, m.height>>,
                  !.ev.bottom = p7.ry + PLAYER_HEIGHT > m.height]

\* Game.update_physics (the camera is left out)
update_physics(g) ==
    LET m == g.lm
        p0 == g.player
        vy0 == p0.vy10 + GRAVITY10
        p1 == [p0 EXCEPT !.vy10 = IF vy0 > MAX_FALL * 10 THEN MAX_FALL * 10 ELSE vy0,
                         !.x10 = p0.x10 + p0.vx10]
        all_platforms == <<m.ground>> \o m.platforms
        p2 == resolve_horizontal_collisions(p1, all_platforms)
        p3 == IF p2.rx < 0 THEN [p2 EXCEPT !.rx = 0, !.x10 = 0] ELSE p2
        p4 == IF p3.rx + PLAYER_WIDTH > m.width
              THEN [p3 EXCEPT !.rx = m.width - PLAYER_WIDTH,
                              !.x10 = (m.width - PLAYER_WIDTH) * 10]
              ELSE p3
        p5 == [p4 EXCEPT !.y10 = p4.y10 + p4.vy10]
        rv == resolve_vertical_collisions(p5, all_platforms)
        p6 == rv.p
        p7 == IF p6.ry < 0 THEN [p6 EXCEPT !.ry = 0, !.y10 = 0] ELSE p6
        p8 == IF p7.ry + PLAYER_HEIGHT > m.height
              THEN [p7 EXCEPT !.ry = m.height - PLAYER_HEIGHT,
                              !.y10 = (m.height - PLAYER_HEIGHT) * 10,
                              !.vy10 = 0,
                              !.jumps_remaining = p7.max_jumps]
              ELSE p7
        p9 == [p8 EXCEPT !.rx = Trunc10(p8.x10), !.ry = Trunc10(p8.y10)]
    IN  [g EXCEPT !.player = p9,
                  !.lm.enemies = [i \in 1..Len(m.enemies) |-> enemy_update(m.enemies[i])],
                  !.ev.falling = p5.vy10 > 0,
                  !.ev.vy_in = p0.vy10,
                  !.ev.vy_move = p5.vy10,
                  !.ev.on_ground = rv.on_ground,
                  !.ev.top = p6.ry < 0,
                  !.ev.phys = <<p9.rx, p9.ry, m.width, m.height>>,
                  !.ev.bottom = p7.ry + PLAYER_HEIGHT > m.height]

\* x in list
Contains(list, x) == \E i \in 1..Len(list) : list[i] = x

\* list.remove(x): the list without the first element equal to x.
Remove(list, x) ==
    LET k == CHOOSE i \in 1..Len(list) : list[i] = x /\ \A j \in 1..(i - 1) : list[j] # x
    IN  SubSeq(list, 1, k - 1) \o SubSeq(list, k + 1, Len(list))

\* Player.check_present_collision
check_present_collision(p, presents) ==
    SelectSeq(presents, LAMBDA present : colliderect(PlayerRect(p), present))

\* Player.check_powerup_collision
check_powerup_collision(p, powerups) ==
    SelectSeq(powerups, LAMBDA powerup : colliderect(PlayerRect(p), powerup.rect))

\* Player.check_enemy_collision: the enemies the player overlaps, in list
\* order; the method returns the first of them, or None when there is none.
check_enemy_collision(p, enemies) ==
    SelectSeq(enemies, LAMBDA e : colliderect(PlayerRect(p), EnemyRect(e)))

\* Player.check_goal_collision
check_goal_collision(p, goal_rect) == colliderect(PlayerRect(p), goal_rect)

\* The durations table of Game.check_collisions.
durations(ptype) ==
    CASE ptype = "double_jump" -> DOUBLE_JUMP_DURATION
      [] ptype = "speed_boost" -> SPEED_BOOST_DURATION
      [] ptype = "invincibility" -> INVINCIBILITY_DURATION

\* Game.check_collisions: the loop over the collected presents, counting
\* total_presents again after each removal.
RECURSIVE collect_presents_recounts(_, _, _)
collect_presents_recounts(g, collected, i) ==
    IF i > Len(collected) THEN g
    ELSE collect_presents_recounts(
            IF Contains(g.lm.presents, collected[i])
            THEN [g EXCEPT !.lm.presents = Remove(g.lm.presents, collected[i]),
                           !.lm.total_presents = Len(g.lm.presents) - 1,
                           !.score = g.score + 1,
                           !.ev.collected = g.ev.collected + 1]
            ELSE g,
            collected, i + 1)

\* Game.check_collisions: the loop over the collected presents, without the
\* increment of the score.
RECURSIVE collect_presents_no_score(_, _, _)
collect_presents_no_score(g, collected, i) ==
    IF i > Len(collected) THEN g
    ELSE collect_presents_no_score(
            IF Contains(g.lm.presents, collected[i])
            THEN [g EXCEPT !.lm.presents = Remove(g.lm.presents, collected[i]),
                           !.ev.collected = g.ev.collected + 1]
            ELSE g,
            collected, i + 1)

\* Game.check_collisions: the loop over the collected presents.
RECURSIVE collect_presents(_, _, _)
collect_presents(g, collected, i) ==
    IF i > Len(collected) THEN g
    ELSE collect_presents(
            IF Contains(g.lm.presents, collected[i])
            THEN [g EXCEPT !.lm.presents = Remove(g.lm.presents, collected[i]),
                           !.score = g.score + 1,
                           !.ev.collected = g.ev.collected + 1]
            ELSE g,
            collected, i + 1)

\* Game.check_collisions: the loop over the collected power-ups.
RECURSIVE collect_powerups(_, _, _, _)
collect_powerups(g, collected, i, now_ms) ==
    IF i > Len(collected) THEN g
    ELSE collect_powerups(
            IF Contains(g.lm.powerups, collected[i])
            THEN [g EXCEPT !.player = apply_powerup(g.player, collected[i].type,
                                                    durations(collected[i].type), now_ms),
                           !.lm.powerups = Remove(g.lm.powerups, collected[i]),
                           !.ev.picked = g.ev.picked \cup {collected[i].type}]
            ELSE g,
            collected, i + 1, now_ms)

\* Game.handle_enemy_collision with Player(start_x, start_y) made anew in the
\* place of player.respawn(start_x, start_y).
handle_enemy_collision_new_player(g, ticks) ==
    LET g1 == [g EXCEPT !.lives = g.lives - 1]
    IN  IF g1.lives <= 0
        THEN restart_game([g1 EXCEPT !.delayed = g1.delayed + GAME_OVER_PAUSE,
                                     !.ev.hit = "game_over"])
        ELSE LET g2 == [g1 EXCEPT !.player =
                          [Player(g1.lm.player_start[1], g1.lm.player_start[2]) EXCEPT
                              !.hit_invincible_until = ticks + RESPAWN_INVINCIBILITY_DURATION]]
             IN  [g2 EXCEPT !.ev.hit = "respawn",
                            !.ev.hit_pre = Fields(g),
                            !.ev.hit_post = Fields(g2)]

\* Game.handle_enemy_collision; ticks is the clock respawn() reads.
handle_enemy_collision(g, ticks) ==
    LET g1 == [g EXCEPT !.lives = g.lives - 1]
    IN  IF g1.lives <= 0
        THEN restart_game([g1 EXCEPT !.delayed = g1.delayed + GAME_OVER_PAUSE,
                                     !.ev.hit = "game_over"])
        ELSE LET g2 == [g1 EXCEPT !.player = respawn(g1.player, g1.lm.player_start[1],
                                                     g1.lm.player_start[2], ticks)]
             IN  [g2 EXCEPT !.ev.hit = "respawn",
                            !.ev.hit_pre = Fields(g),
                            !.ev.hit_post = Fields(g2)]

\* Game.handle_goal_collision with the timestamp taken before the test of
\* the score.
handle_goal_collision_stamps_early(g, ticks) ==
    LET g1 == [g EXCEPT !.level_complete_time = Some(ticks)]
    IN  IF g1.score >= g1.lm.total_presents
        THEN IF ~g1.lm.completed
             THEN [g1 EXCEPT !.lm.completed = TRUE, !.ev.goal = "completed"]
             ELSE [g EXCEPT !.ev.goal = "already"]
        ELSE [g1 EXCEPT !.ev.goal = "warned"]

\* Game.handle_goal_collision without the test of `completed`.
handle_goal_collision_restamps(g, ticks) ==
    IF g.score >= g.lm.total_presents
    THEN [g EXCEPT !.lm.completed = TRUE,
                   !.level_complete_time = Some(ticks),
                   !.ev.goal = IF g.lm.completed THEN "already" ELSE "completed"]
    ELSE [g EXCEPT !.ev.goal = "warned"]

\* Game.handle_goal_collision without the test of the score.
handle_goal_collision_any_score(g, ticks) ==
    IF ~g.lm.completed
    THEN [g EXCEPT !.lm.completed = TRUE,
                   !.level_complete_time = Some(ticks),
                   !.ev.goal = "completed"]
    ELSE [g EXCEPT !.ev.goal = "already"]

\* Game.handle_goal_collision; ticks is its reading of the clock.
handle_goal_collision(g, ticks) ==
    IF g.score >= g.lm.total_presents
    THEN IF ~g.lm.completed
         THEN [g EXCEPT !.lm.completed = TRUE,
                        !.level_complete_time = Some(ticks),
                        !.ev.goal = "completed"]
         ELSE [g EXCEPT !.ev.goal = "already"]
    ELSE [g EXCEPT !.ev.goal = "warned"]

\* Game.check_collisions: the enemy check, with handle_enemy_collision called
\* for each of two overlapped enemies.
check_enemies_each(g, now_ms, ticks) ==
    IF Len(check_enemy_collision(g.player, g.lm.enemies)) > 0
    THEN LET g1 == [g EXCEPT !.ev.enemy_overlap = TRUE,
                             !.ev.pu_active = now_ms < g.player.power_until["invincibility"],
                             !.ev.hit_active = now_ms < g.player.hit_invincible_until,
                             !.ev.at_check = <<g.player.rx, g.player.ry>>]
             n == Cardinality({ i \in 1..Len(g.lm.enemies) :
                                  colliderect(PlayerRect(g.player), EnemyRect(g.lm.enemies[i])) })
         IN  IF ~is_invincible(g1.player, now_ms)
             THEN IF n >= 2
                  THEN handle_enemy_collision(handle_enemy_collision(g1, ticks), ticks)
                  ELSE handle_enemy_collision(g1, ticks)
             ELSE g1
    ELSE g

\* Game.check_collisions: the enemy check, without the test of is_invincible.
check_enemies_unguarded(g, now_ms, ticks) ==
    IF Len(check_enemy_collision(g.player, g.lm.enemies)) > 0
    THEN LET g1 == [g EXCEPT !.ev.enemy_overlap = TRUE,
                             !.ev.pu_active = now_ms < g.player.power_until["invincibility"],
                             !.ev.hit_active = now_ms < g.player.hit_invincible_until,
                             !.ev.at_check = <<g.player.rx, g.player.ry>>]
         IN  handle_enemy_collision(g1, ticks)
    ELSE g

\* Game.check_collisions: the enemy check.
check_enemies(g, now_ms, ticks) ==
    IF Len(check_enemy_collision(g.player, g.lm.enemies)) > 0
    THEN LET g1 == [g EXCEPT !.ev.enemy_overlap = TRUE,
                             !.ev.pu_active = now_ms < g.player.power_until["invincibility"],
                             !.ev.hit_active = now_ms < g.player.hit_invincible_until,
                             !.ev.at_check = <<g.player.rx, g.player.ry>>]
         IN  IF ~is_invincible(g1.player, now_ms)
             THEN handle_enemy_collision(g1, ticks)
             ELSE g1
    ELSE g

\* Game.check_collisions: the goal check.
check_goal(g, ticks) ==
    IF check_goal_collision(g.player, g.lm.goal)
    THEN handle_goal_collision([g EXCEPT !.ev.goal_pre = Fields(g)], ticks)
    ELSE g

\* Game.check_collisions with the enemy check made before the power-up check.
check_collisions_enemies_first(g, now_ms, ticks_respawn, ticks_goal) ==
    LET g0 == collect_presents(g, check_present_collision(g.player, g.lm.presents), 1)
        g1 == [g0 EXCEPT !.ev.left = Len(g0.lm.presents)]
        g2 == check_enemies(g1, now_ms, ticks_respawn)
        g3 == collect_powerups(g2, check_powerup_collision(g2.player, g2.lm.powerups), 1, now_ms)
    IN  check_goal(g3, ticks_goal)

\* Game.check_collisions: presents, power-ups, enemies, goal.  ticks_respawn
\* and ticks_goal are the clock readings of respawn() and of
\* handle_goal_collision().
check_collisions(g, now_ms, ticks_respawn, ticks_goal) ==
    LET g0 == collect_presents(g, check_present_collision(g.player, g.lm.presents), 1)
        g1 == [g0 EXCEPT !.ev.left = Len(g0.lm.presents)]
        g2 == collect_powerups(g1, check_powerup_collision(g1.player, g1.lm.powerups), 1, now_ms)
        g3 == check_enemies(g2, now_ms, ticks_respawn)
    IN  check_goal(g3, ticks_goal)

\* One iteration of the loop of Game.run that is not ended by a quit event, up
\* to the call of check_collisions: jumps jump events, the held keys left and
\* right, the clock reading now_ms of update() and the reading ticks_prog of
\* handle_level_progression().
run_frame_head(g, jumps, left, right, now_ms, ticks_prog) ==
    LET g0 == [g EXCEPT !.ev = EvNone, !.delayed = 0]
        g1 == handle_events(g0, jumps)
        g2 == handle_input(g1, left, right)
        g3 == update(g2, now_ms, ticks_prog)
    IN  update_physics(g3)

\* One iteration of the loop of Game.run that is not ended by a quit event.
run_frame(g, jumps, left, right, now_ms, ticks_prog, ticks_respawn, ticks_goal) ==
    check_collisions(run_frame_head(g, jumps, left, right, now_ms, ticks_prog),
                     now_ms, ticks_respawn, ticks_goal)

-----------------------------------------------------------------------------
(* The game session *)

\* The values the objects under test hold while a session runs.
NoEnemy == Enemy(0, 0, 1, 1, 0, 0, 0)
NoCall == [op |-> "none", n |-> 0]

\* The Game's fields as a record.
TheGame ==
    [player |-> player, lm |-> lm, lives |-> lives, score |-> score,
     level_complete_time |-> level_complete_time, delayed |-> delayed, ev |-> ev]

\* The frame periods explored: one tick of clock.tick(FPS), and a stalled frame.
FramePeriods == {1000 \div FPS, LEVEL_COMPLETE_DELAY}

\* The key states explored: nothing held, left held, right held.
KeyStates == {<<FALSE, FALSE>>, <<TRUE, FALSE>>, <<FALSE, TRUE>>}

\* The ms by which handle_level_progression's reading of the clock may exceed
\* update()'s: the reading is used only while a completion is pending.
ProgSkews == IF lm.completed THEN 0..MaxSkew ELSE {0}

Init ==
    /\ levels_data \in SessionArgs
    /\ \E g \in {Game(levels_data)} :
           /\ player = g.player
           /\ lm = g.lm
           /\ lives = g.lives
           /\ score = g.score
           /\ level_complete_time = g.level_complete_time
           /\ delayed = g.delayed
           /\ ev = g.ev
    /\ now = 0
    /\ frame = 0
    /\ enemy = NoEnemy
    /\ plats = << >>
    /\ call = NoCall

\* The frames explored of a session.
FrameBudget ==
    IF levels_data \in {"A", "E"} THEN MaxFramesA
    ELSE IF levels_data = "G" THEN MaxFramesG
    ELSE MaxFrames

\* The readings <<ticks_respawn, ticks_goal>> of the clock that check_collisions
\* may make on g at now_ms, after a reading that exceeded now_ms by s1: each
\* exceeds now_ms by at most MaxSkew and is no earlier than the one before it.
\* A reading that is not made (no respawn, no completion) is not varied.
LateReadings(g, now_ms, s1) ==
    LET gc == check_collisions(g, now_ms, now_ms, now_ms)
        R == IF gc.ev.hit = "respawn" THEN s1..MaxSkew ELSE {s1}
        G(r) == IF gc.ev.goal = "completed" THEN r..MaxSkew ELSE {r}
    IN  UNION { { <<now_ms + r, now_ms + s>> : s \in G(r) } : r \in R }

\* Game.run: one iteration of the loop.  The clock has advanced by the time
\* the last frame spent in pygame.time.delay() and by one frame period.
Frame ==
    /\ frame < FrameBudget
    /\ \E jumps \in 0..MaxJumpEvents, keys \in KeyStates, dt \in FramePeriods,
          s1 \in ProgSkews :
          \E g4 \in {run_frame_head(TheGame, jumps, keys[1], keys[2],
                                    now + delayed + dt, now + delayed + dt + s1)} :
             \E late \in LateReadings(g4, now + delayed + dt, s1) :
                \E g \in {check_collisions(g4, now + delayed + dt, late[1], late[2])} :
                    /\ now' = now + delayed + dt
                    /\ player' = g.player
                    /\ lm' = g.lm
                    /\ lives' = g.lives
                    /\ score' = g.score
                    /\ level_complete_time' = g.level_complete_time
                    /\ delayed' = g.delayed
                    /\ ev' = g.ev
    /\ frame' = frame + 1
    /\ UNCHANGED <<levels_data, enemy, plats, call>>

Next == Frame

Spec == Init /\ [][Next]_vars

-----------------------------------------------------------------------------
(* Properties of the game session *)

\* A completion is pending: the level is completed and its timestamp is set.
Pending == lm.completed /\ level_complete_time # None

\* C2: `completed` becomes true only in a frame in which every present of the
\* level has been collected (none is left, score >= total_presents) and, at
\* the end of which, the player's rectangle overlaps the goal rectangle.
C2_CompletionRule ==
    [][ (lm'.completed /\ (~lm.completed \/ ev'.prog = "advanced"))
            => /\ Len(lm'.presents) = 0
               /\ score' >= lm'.total_presents
               /\ colliderect(PlayerRect(player'), lm'.goal) ]_vars

\* A frame has completed a level that has presents.
C2_Witness ==
    /\ ev.goal = "completed"
    /\ lm.completed
    /\ lm.total_presents > 0

\* C3 as stated: while a completion is pending, a frame whose clock reading
\* is at most 3000 ms after the completion timestamp neither invokes
\* next_level() nor changes the level index, and a frame whose reading exceeds
\* it by more than 3000 ms invokes next_level().
C3_AsStated ==
    [][ Pending =>
          /\ (ev'.prog_elapsed <= LEVEL_COMPLETE_DELAY
                 => (ev'.prog = "waiting" /\ lm'.index = lm.index))
          /\ (ev'.prog_elapsed > LEVEL_COMPLETE_DELAY
                 => ev'.prog \in {"advanced", "victory"}) ]_vars

\* C3, amended: while a completion is pending, a frame whose clock reading is
\* at most 3000 ms after the completion timestamp does not invoke next_level(),
\* and the level index changes in it only by a game-over restart, to 0; a
\* frame whose reading exceeds the timestamp by more than 3000 ms invokes
\* next_level().
C3_Delay ==
    [][ Pending =>
          /\ (ev'.prog_elapsed <= LEVEL_COMPLETE_DELAY
                 => /\ ev'.prog = "waiting"
                    /\ \/ lm'.index = lm.index
                       \/ (ev'.hit = "game_over" /\ lm'.index = 0))
          /\ (ev'.prog_elapsed > LEVEL_COMPLETE_DELAY
                 => ev'.prog \in {"advanced", "victory"}) ]_vars

\* A frame read the clock exactly 3000 ms after the completion, waited, and
\* the player overlapped the goal again in it.
C3_Witness ==
    /\ ev.prog = "waiting"
    /\ ev.prog_elapsed = LEVEL_COMPLETE_DELAY
    /\ ev.goal = "already"

\* C4: a life is lost only in a frame in which the player overlaps an enemy
\* at the enemy check while neither invincibility timer is unexpired; a frame
\* in which the player overlaps an enemy while invincible calls no enemy
\* handler, loses no life and leaves the player where the check found it.
C4_LifeLoss ==
    [][ /\ ((lives' < lives \/ ev'.hit # "none")
              => (ev'.enemy_overlap /\ ~ev'.pu_active /\ ~ev'.hit_active))
        /\ ((ev'.enemy_overlap /\ (ev'.pu_active \/ ev'.hit_active))
              => /\ ev'.hit = "none"
                 /\ lives' >= lives
                 /\ <<player'.rx, player'.ry>> = ev'.at_check) ]_vars

\* A player who has lost a life overlaps an enemy away from the start
\* position while the post-respawn grace lasts.
C4_Witness ==
    /\ ev.enemy_overlap
    /\ ev.hit_active
    /\ lives < STARTING_LIVES
    /\ <<player.rx, player.ry>> # lm.player_start

\* C5: when a player with one life overlaps an enemy while not invincible,
\* the frame ends restarted: level index 0, lives = STARTING_LIVES, score 0,
\* the level not completed, no completion timestamp, and a fresh player at
\* level 0's start coordinates.
C5_GameOver ==
    [][ (lives = 1 /\ ev'.prog # "victory"
           /\ ev'.enemy_overlap /\ ~ev'.pu_active /\ ~ev'.hit_active)
          => /\ lm'.index = 0
             /\ lives' = STARTING_LIVES
             /\ score' = 0
             /\ ~lm'.completed
             /\ level_complete_time' = None
             /\ lm'.player_start = Table(lm'.levels_data)[1].player_start
             /\ player' = Player(lm'.player_start[1], lm'.player_start[2]) ]_vars

\* A frame ended in the game-over path.
C5_Witness ==
    /\ ev.hit = "game_over"
    /\ lives = STARTING_LIVES

\* C6 as stated: 0 <= jumps_remaining <= max_jumps in every state of a session.
C6_AsStated ==
    /\ 0 <= player.jumps_remaining
    /\ player.jumps_remaining <= player.max_jumps

\* C6, amended: 0 <= jumps_remaining <= 2 in every state of a session, and
\* jumps_remaining exceeds max_jumps only as 2 > 1, after a double-jump
\* window has lapsed.
C6_JumpBudget ==
    /\ 0 <= player.jumps_remaining
    /\ player.jumps_remaining <= 2
    /\ player.jumps_remaining > player.max_jumps
          => /\ player.max_jumps = 1
             /\ player.power_until["double_jump"] > 0
             /\ now >= player.power_until["double_jump"]

\* The double-jump window has lapsed on a player who holds two jumps.
C6_Witness ==
    /\ player.jumps_remaining = 2
    /\ player.max_jumps = 1

\* C9: at the end of a frame in which the falling player landed on a platform
\* or on the ground, or was stopped by the level's bottom boundary,
\* jumps_remaining = max_jumps and vy = 0.
C9_Landing ==
    (ev.falling /\ (ev.on_ground \/ ev.bottom))
        => (player.jumps_remaining = player.max_jumps /\ player.vy10 = 0)

\* A player with a double-jump window open has landed and holds two jumps.
C9_Witness ==
    /\ ev.falling
    /\ ev.on_ground
    /\ player.max_jumps = 2
    /\ player.jumps_remaining = 2

\* C12 as stated: in every state of a session (the end of every frame, after
\* a respawn or not) rect.x = floor(x) and rect.y = floor(y).
C12_AsStated ==
    /\ player.rx = player.x10 \div 10
    /\ player.ry = player.y10 \div 10

\* C12, amended: in every state of a session rect.x = int(x) and
\* rect.y = int(y), the float truncated toward zero: the floor of a coordinate
\* that is not negative, and the ceiling of a negative one (rect.y = 0 while
\* -1 < y < 0).
C12_RectSync ==
    /\ player.rx = IF player.x10 >= 0 THEN player.x10 \div 10 ELSE -((-player.x10) \div 10)
    /\ player.ry = IF player.y10 >= 0 THEN player.y10 \div 10 ELSE -((-player.y10) \div 10)

\* A frame has ended with the player's y between -1 and 0 and rect.y = 0.
C12_Witness ==
    /\ frame > 0
    /\ player.y10 < 0
    /\ player.y10 > -10
    /\ player.ry = 0

\* C13 as stated: at the end of a frame whose boundary clamp found rect.top < 0
\* and set it to 0, vy = 0.
C13_AsStated ==
    ev.top => player.vy10 = 0

\* C14: when the physics step of a frame ends, the player's rectangle lies
\* inside the level: 0 <= rect.left, rect.right <= width, 0 <= rect.top,
\* rect.bottom <= height.
C14_InBounds ==
    ev.phys # << >>
        => /\ 0 <= ev.phys[1]
           /\ ev.phys[1] + PLAYER_WIDTH <= ev.phys[3]
           /\ 0 <= ev.phys[2]
           /\ ev.phys[2] + PLAYER_HEIGHT <= ev.phys[4]

\* A physics step whose top clamp moved the player has ended with the
\* rectangle on the top of the level.
C14_Witness ==
    /\ ev.top
    /\ ev.phys # << >>
    /\ ev.phys[2] = 0

\* C20: a call of handle_enemy_collision that leaves lives > 0 takes one from
\* lives, moves the player to the level's start position with vx = vy = 0 and
\* sets the hit-invincibility expiry; it changes nothing else: not the
\* power-up timers, the speed or the jump budget of the player, not the score,
\* not the level (its index, presents, power-ups, enemies, completed), not
\* the completion timestamp.
C20_RespawnFrame ==
    ev.hit = "respawn"
        => LET pre == ev.hit_pre
               post == ev.hit_post
               Rest(p) == [p EXCEPT !.x10 = 0, !.y10 = 0, !.rx = 0, !.ry = 0,
                                    !.vx10 = 0, !.vy10 = 0, !.hit_invincible_until = 0]
           IN  /\ post.lives = pre.lives - 1
               /\ post.lives > 0
               /\ post.score = pre.score
               /\ post.lm = pre.lm
               /\ post.level_complete_time = pre.level_complete_time
               /\ Rest(post.player) = Rest(pre.player)
               /\ <<post.player.rx, post.player.ry>> = pre.lm.player_start
               /\ post.player.vx10 = 0
               /\ post.player.vy10 = 0

\* A moving player whose speed boost is in effect has lost a life, not the
\* last, and has been respawned.
C20_Witness ==
    /\ ev.hit = "respawn"
    /\ now < ev.hit_pre.player.power_until["speed_boost"]
    /\ ev.hit_pre.player.speed10 = BASE_SPEED * SPEED_BOOST_MULTIPLIER10
    /\ ev.hit_pre.player.vx10 # 0
    /\ ev.hit_post.player.vx10 = 0

\* C21: a call of handle_goal_collision made while score < total_presents
\* changes nothing of the game: the player, the level, lives, score and the
\* completion timestamp are what they were, the level is not completed and
\* no timestamp is set.
C21_GoalWarning ==
    (ev.goal # "none" /\ ev.goal_pre.score < ev.goal_pre.lm.total_presents)
        => /\ ev.goal = "warned"
           /\ Fields(TheGame) = ev.goal_pre
           /\ ~lm.completed
           /\ level_complete_time = None

\* The player has overlapped the goal of a level in which a present is left.
C21_Witness ==
    /\ ev.goal = "warned"
    /\ Len(lm.presents) > 0
    /\ colliderect(PlayerRect(player), lm.goal)

\* C22: a frame in which the player overlaps the goal of a level whose
\* completion is pending leaves the completion timestamp as it was.
C22_StampOnce ==
    [][ (Pending /\ ev'.goal = "already")
          => /\ level_complete_time' = level_complete_time
             /\ lm'.completed ]_vars

\* The player has overlapped the goal again in a frame later than the
\* completion, before the delay has elapsed.
C22_Witness ==
    /\ ev.goal = "already"
    /\ ev.prog = "waiting"
    /\ ev.prog_elapsed < LEVEL_COMPLETE_DELAY
    /\ level_complete_time # None
    /\ level_complete_time[1] < now

\* C25: a frame that begins with the completion of the last level pending
\* and reads the clock more than 3000 ms after the timestamp takes the victory
\* path, and when handle_game_victory returns the level index is 0, the
\* player is a new Player at the start of level 0, lives = STARTING_LIVES,
\* score = 0, the level is not completed and no timestamp is pending.
C25_Victory ==
    [][ (/\ Pending
         /\ lm.index + 1 = Len(Table(lm.levels_data))
         /\ ev'.prog_elapsed > LEVEL_COMPLETE_DELAY)
          => /\ ev'.prog = "victory"
             /\ LET post == ev'.prog_post
                     start == Table(post.lm.levels_data)[1].player_start
                 IN  /\ post.lm.index = 0
                     /\ post.lm.player_start = start
                     /\ post.player = Player(start[1], start[2])
                     /\ post.lives = STARTING_LIVES
                     /\ post.score = 0
                     /\ ~post.lm.completed
                     /\ post.level_complete_time = None ]_vars

\* A frame has taken the victory path after a level with a present was
\* completed.
C25_Witness ==
    /\ ev.prog = "victory"
    /\ ev.prog_elapsed > LEVEL_COMPLETE_DELAY
    /\ ev.prog_post # << >>
    /\ lm.index = 0
    /\ score = 0

\* C26: in every state of a session total_presents is the number of presents
\* that the level data of the current level lists, whatever number of them
\* has been collected and removed.
C26_TotalPresents ==
    lm.total_presents = Len(Table(lm.levels_data)[lm.index + 1].presents)

\* A present has been collected and removed from a level.
C26_Witness ==
    /\ ev.collected > 0
    /\ lm.total_presents > 0
    /\ Len(lm.presents) < lm.total_presents

\* C27: the checks of a frame are made in the order presents, power-ups,
\* enemies, goal, each on what the earlier ones left: a frame whose power-up
\* check applied an invincibility power-up and whose enemy check found an
\* enemy overlapped calls no enemy handler, and a frame whose present check
\* collected the last present and whose goal check found the goal overlapped
\* (with no game-over restart between them) completes the level.
C27_CheckOrder ==
    /\ ("invincibility" \in ev.picked /\ ev.enemy_overlap)
          => (ev.pu_active /\ ev.hit = "none")
    /\ (ev.collected > 0 /\ ev.left = 0 /\ ev.goal # "none" /\ ev.hit # "game_over")
          => /\ ev.goal = "completed"
             /\ lm.completed
             /\ level_complete_time # None

\* A frame has collected the last present of a level, respawned the player
\* after an enemy hit, and completed the level.
C27_Witness ==
    /\ ev.collected > 0
    /\ ev.left = 0
    /\ ev.hit = "respawn"
    /\ ev.goal = "completed"

\* C28 as stated: level progression is the last step of a frame, so a frame
\* that advanced to the next level ends with that level as loaded and a new
\* Player at its start.
C28_AsStated ==
    ev.prog = "advanced"
        => /\ player = Player(lm.player_start[1], lm.player_start[2])
           /\ lm = load_level(lm, lm.index)
           /\ score = 0
           /\ level_complete_time = None

\* C32: when handle_level_progression returns from a successful advance, the
\* level index is one more than it was, the player is a new Player at the
\* start of that level (x, y and the rectangle at the start coordinates,
\* vx = vy = 0, every power-up timer and the hit-invincibility timer 0,
\* max_jumps = jumps_remaining = 1), score = 0, the level is not completed,
\* no timestamp is pending, and lives is what it was.
C32_Advance ==
    [][ ev'.prog = "advanced"
          => LET post == ev'.prog_post
                 start == Table(lm.levels_data)[lm.index + 2].player_start
             IN  /\ post.lm.index = lm.index + 1
                 /\ post.lm.player_start = start
                 /\ post.player = Player(start[1], start[2])
                 /\ <<post.player.x10, post.player.y10>> = <<start[1] * 10, start[2] * 10>>
                 /\ <<post.player.rx, post.player.ry>> = start
                 /\ <<post.player.vx10, post.player.vy10>> = <<0, 0>>
                 /\ \A k \in Kinds : post.player.power_until[k] = 0
                 /\ post.player.hit_invincible_until = 0
                 /\ <<post.player.max_jumps, post.player.jumps_remaining>> = <<1, 1>>
                 /\ post.score = 0
                 /\ ~post.lm.completed
                 /\ post.level_complete_time = None
                 /\ post.lives = lives ]_vars

\* A frame has advanced to the second level after a life was lost in the
\* first.
C32_Witness ==
    /\ ev.prog = "advanced"
    /\ ev.prog_post # << >>
    /\ ev.prog_post.lm.index = 1
    /\ ev.prog_post.lives < STARTING_LIVES

\* C33: at every frame boundary of a session the score is the number of
\* presents collected in the current level, total_presents minus the number
\* of presents still in the level, and so lies in 0..total_presents.
C33_Score ==
    /\ score = lm.total_presents - Len(lm.presents)
    /\ 0 <= score
    /\ score <= lm.total_presents

\* A session that has collected a present and lost a life holds a score.
C33_Witness ==
    /\ score > 0
    /\ Len(lm.presents) < lm.total_presents
    /\ lives < STARTING_LIVES
    /\ frame > 1

\* C36 as stated: a frame in which the game was restarted, by a game over or
\* by a victory, ends with the level manager at the first level of the level
\* list that the session was constructed with.
C36_AsStated ==
    (ev.hit = "game_over" \/ ev.prog = "victory")
        => /\ lm.levels_data = levels_data
           /\ lm.index = 0

-----------------------------------------------------------------------------
(* The session among enemies: a session in the two rooms in which the       *)
(* player touches an enemy wherever it stands                               *)

\* Game(levels_data) with the two rooms
HitsInit ==
    /\ levels_data = "G"
    /\ \E g \in {Game(levels_data)} :
           /\ player = g.player
           /\ lm = g.lm
           /\ lives = g.lives
           /\ score = g.score
           /\ level_complete_time = g.level_complete_time
           /\ delayed = g.delayed
           /\ ev = g.ev
    /\ now = 0
    /\ frame = 0
    /\ enemy = NoEnemy
    /\ plats = << >>
    /\ call = NoCall

SpecHits == HitsInit /\ [][Next]_vars

\* The enemies of the level that the rectangle the player had at the enemy
\* check of the frame overlaps.
Touched ==
    { i \in 1..Len(lm.enemies) :
         colliderect(Rect(ev.at_check[1], ev.at_check[2], PLAYER_WIDTH, PLAYER_HEIGHT),
                     EnemyRect(lm.enemies[i])) }

\* C34: every frame ends with 1 <= lives <= STARTING_LIVES and with lives no
\* less than one below what it was when the frame began, whatever number of
\* enemies the player overlaps.
C34_Lives ==
    [][ /\ 1 <= lives'
        /\ lives' <= STARTING_LIVES
        /\ lives' >= lives - 1 ]_vars

\* A frame in which the player overlapped two enemies at once has taken one
\* life of three.
C34_Witness ==
    /\ ev.hit = "respawn"
    /\ lm.index = 0
    /\ Cardinality(Touched) >= 2
    /\ lives = STARTING_LIVES - 1

\* C35 as stated: the player of a frame's beginning, respawned after an enemy
\* hit at a time r (hit_invincible_until = r + 1200), loses no life in a frame
\* whose time is earlier than r + 1200 and in which the game is not restarted
\* by a victory, whether or not the frame advances to the next level.
C35_AsStated ==
    [][ (/\ player.hit_invincible_until > 0
         /\ now' < player.hit_invincible_until
         /\ ev'.prog # "victory")
          => /\ ev'.hit = "none"
             /\ lives' = lives ]_vars

\* C35, amended: the player of a frame's beginning, respawned after an enemy
\* hit at a time r (hit_invincible_until = r + 1200), loses no life in a frame
\* whose time is earlier than r + 1200 and in which the player is not
\* replaced by a level advance or by a victory restart.
C35_Grace ==
    [][ (/\ player.hit_invincible_until > 0
         /\ now' < player.hit_invincible_until
         /\ ev'.prog \notin {"advanced", "victory"})
          => /\ ev'.hit = "none"
             /\ lives' = lives ]_vars

\* A player that had lost a life has overlapped an enemy, while a completion
\* was pending, in a frame earlier than the end of its grace, and has lost
\* no life.
C35_Witness ==
    /\ Pending
    /\ ev.prog = "waiting"
    /\ ev.enemy_overlap
    /\ ev.hit_active
    /\ ~ev.pu_active
    /\ ev.hit = "none"
    /\ lives < STARTING_LIVES
    /\ now < player.hit_invincible_until

\* C37: at every frame boundary of a session the level is completed if and
\* only if a completion timestamp is set.
C37_FlagAndStamp ==
    lm.completed <=> (level_complete_time # None)

\* A frame has advanced to the next level and has taken a life of the new
\* player: the flag and the timestamp of the completion are both cleared.
C37_Witness ==
    /\ ev.prog = "advanced"
    /\ ev.hit = "respawn"
    /\ lm.index = 1
    /\ ~lm.completed
    /\ level_complete_time = None

\* C39: a frame that begins with a completion pending and ends in a game-over
\* restart leaves no completion pending, at level 0 with score 0; a frame
\* that begins with no completion pending neither advances nor ends the game
\* in a victory; a completion becomes pending only in a frame whose goal check
\* completed the level with no present left, with a timestamp no earlier than
\* the frame's time; and a frame advances or wins only when it reads the clock
\* more than 3000 ms after the pending timestamp.
C39_Cancel ==
    [][ /\ (Pending /\ ev'.hit = "game_over")
              => /\ ~lm'.completed
                 /\ level_complete_time' = None
                 /\ lm'.index = 0
                 /\ score' = 0
        /\ ~Pending => ev'.prog = "none"
        /\ (~Pending /\ level_complete_time' # None)
              => /\ ev'.goal = "completed"
                 /\ ev'.left = 0
                 /\ lm'.completed
                 /\ level_complete_time'[1] >= now'
        /\ ev'.prog \in {"advanced", "victory"}
              => /\ Pending
                 /\ ev'.prog_elapsed > LEVEL_COMPLETE_DELAY
                 /\ now' + MaxSkew - level_complete_time[1] > LEVEL_COMPLETE_DELAY ]_vars

\* The last life has been lost while the completion of level 0 was pending
\* and its delay had not elapsed: the game has restarted and nothing is
\* pending.
C39_Witness ==
    /\ ev.hit = "game_over"
    /\ ev.prog = "waiting"
    /\ ev.prog_elapsed <= LEVEL_COMPLETE_DELAY
    /\ ~Pending
    /\ lm.index = 0
    /\ lives = STARTING_LIVES

-----------------------------------------------------------------------------
(* The session that goes on: frames are executed, and the clock advances,   *)
(* for as long as a completion is pending                                   *)

\* The levels_data arguments of a session that goes on.
LiveArgs == {"E", "G"}

\* Game(levels_data)
LiveInit ==
    /\ levels_data \in LiveArgs
    /\ \E g \in {Game(levels_data)} :
           /\ player = g.player
           /\ lm = g.lm
           /\ lives = g.lives
           /\ score = g.score
           /\ level_complete_time = g.level_complete_time
           /\ delayed = g.delayed
           /\ ev = g.ev
    /\ now = 0
    /\ frame = 0
    /\ enemy = NoEnemy
    /\ plats = << >>
    /\ call = NoCall

\* The jump events and the key states of a frame: any in a counted frame,
\* none in a frame past the budget.
LiveJumps == IF frame < MaxFramesLive THEN 0..MaxJumpEvents ELSE {0}
LiveKeys == IF frame < MaxFramesLive THEN KeyStates ELSE {<<FALSE, FALSE>>}

\* Game.run: one iteration of the loop.  Frames past the budget are explored
\* while a completion is pending that is at most MaxWait delays old; they
\* are not counted.
LiveFrame ==
    /\ \/ frame < MaxFramesLive
       \/ /\ Pending
          /\ now - level_complete_time[1] <= MaxWait * LEVEL_COMPLETE_DELAY
    /\ \E jumps \in LiveJumps, keys \in LiveKeys, dt \in FramePeriods,
          s1 \in ProgSkews :
          \E g4 \in {run_frame_head(TheGame, jumps, keys[1], keys[2],
                                    now + delayed + dt, now + delayed + dt + s1)} :
             \E late \in LateReadings(g4, now + delayed + dt, s1) :
                \E g \in {check_collisions(g4, now + delayed + dt, late[1], late[2])} :
                    /\ now' = now + delayed + dt
                    /\ player' = g.player
                    /\ lm' = g.lm
                    /\ lives' = g.lives
                    /\ score' = g.score
                    /\ level_complete_time' = g.level_complete_time
                    /\ delayed' = g.delayed
                    /\ ev' = g.ev
    /\ frame' = IF frame < MaxFramesLive THEN frame + 1 ELSE frame
    /\ UNCHANGED <<levels_data, enemy, plats, call>>

NextLive == LiveFrame

\* Game.run: clock.tick(FPS) returns and the clock has advanced by the time
\* the last frame spent in pygame.time.delay() and by one frame period.  The
\* steps of LiveFrame are the steps of the session that do this.
LiveTick ==
    /\ \/ frame < MaxFramesLive
       \/ /\ Pending
          /\ now - level_complete_time[1] <= MaxWait * LEVEL_COMPLETE_DELAY
    /\ \E dt \in FramePeriods : now' = now + delayed + dt

\* The loop of Game.run goes on and the clock advances: an iteration that
\* can be made is made.
SpecLive == LiveInit /\ [][NextLive]_vars /\ WF_now(LiveTick)

\* C38: a session in which a completion is pending reaches a frame that
\* advances to the next level, or restarts the game in a victory, or restarts
\* it in a game over.
C38_Progress ==
    Pending ~> (ev.prog \in {"advanced", "victory"} \/ ev.hit = "game_over")

\* A completion has been pending for more frames of one period than are
\* counted, the delay all but elapsed.
C38_Witness ==
    /\ Pending
    /\ frame = MaxFramesLive
    /\ ev.prog = "waiting"
    /\ ev.prog_elapsed > LEVEL_COMPLETE_DELAY - 1000 \div FPS
    /\ now % LEVEL_COMPLETE_DELAY > MaxFramesLive * (1000 \div FPS)

-----------------------------------------------------------------------------
(* The long fall: a session in the tall room, no key held, one frame period *)
(* per frame                                                                *)

\* Game(levels_data) with the tall room
FallInit ==
    /\ levels_data = "F"
    /\ \E g \in {Game(levels_data)} :
           /\ player = g.player
           /\ lm = g.lm
           /\ lives = g.lives
           /\ score = g.score
           /\ level_complete_time = g.level_complete_time
           /\ delayed = g.delayed
           /\ ev = g.ev
    /\ now = 0
    /\ frame = 0
    /\ enemy = NoEnemy
    /\ plats = << >>
    /\ call = NoCall

\* Game.run: one iteration of the loop, with jump events only.
FallFrame ==
    /\ frame < MaxFallFrames
    /\ \E jumps \in 0..MaxJumpEvents :
          \E g \in {run_frame(TheGame, jumps, FALSE, FALSE,
                               now + delayed + 1000 \div FPS, now + delayed + 1000 \div FPS,
                               now + delayed + 1000 \div FPS, now + delayed + 1000 \div FPS)} :
              /\ now' = now + delayed + 1000 \div FPS
              /\ player' = g.player
              /\ lm' = g.lm
              /\ lives' = g.lives
              /\ score' = g.score
              /\ level_complete_time' = g.level_complete_time
              /\ delayed' = g.delayed
              /\ ev' = g.ev
    /\ frame' = frame + 1
    /\ UNCHANGED <<levels_data, enemy, plats, call>>

NextFall == FallFrame

SpecFall == FallInit /\ [][NextFall]_vars

\* C30: in every frame the vy that update_physics adds to y is
\* min(vy + GRAVITY, MAX_FALL) of the vy it began with, lies between
\* BASE_JUMP and MAX_FALL, and, when nothing stops the player in the frame,
\* is the vy and the change of y that the frame ends with.
C30_Gravity ==
    [][ /\ ev'.vy_move = IF ev'.vy_in + GRAVITY10 < MAX_FALL * 10
                         THEN ev'.vy_in + GRAVITY10
                         ELSE MAX_FALL * 10
        /\ BASE_JUMP * 10 <= ev'.vy_move
        /\ ev'.vy_move <= MAX_FALL * 10
        /\ (~ev'.on_ground /\ ~ev'.top /\ ~ev'.bottom)
              => /\ player'.vy10 = ev'.vy_move
                 /\ player'.y10 = player.y10 + ev'.vy_move ]_vars

\* A player falling at MAX_FALL has fallen one more frame at MAX_FALL.
C30_Witness ==
    /\ ev.vy_in = MAX_FALL * 10
    /\ ev.vy_move = MAX_FALL * 10
    /\ player.vy10 = MAX_FALL * 10
    /\ ~ev.on_ground

-----------------------------------------------------------------------------
(* The enemy under test: Enemy.update called on one enemy *)

\* The Game's fields while an object is tested on its own.
ParkedGame ==
    /\ levels_data = "LEVELS"
    /\ lm = LevelManager("LEVELS")
    /\ lives = STARTING_LIVES
    /\ score = 0
    /\ level_complete_time = None
    /\ delayed = 0
    /\ frame = 0
    /\ ev = EvNone

\* The speeds an enemy under test is configured with: leftward, none, whole,
\* fractional, and longer than the patrol range.
EnemySpeeds10 == {-25, 0, 10, 15, 70}

\* Enemy(x, 0, 1, 1, lo, hi, speed) with lo <= hi in 0..MaxPatrol and any
\* starting x from two pixels left of the range to two pixels right of it.
EnemyInit ==
    /\ ParkedGame
    /\ now = 0
    /\ player = Player(0, 0)
    /\ plats = << >>
    /\ call = NoCall
    /\ \E lo \in 0..MaxPatrol :
          \E hi \in lo..MaxPatrol, x \in (0 - 2)..(MaxPatrol + 2), s \in EnemySpeeds10 :
             enemy = Enemy(x, 0, 1, 1, lo, hi, s)

\* enemy.update()
EnemyUpdate ==
    /\ call.n < MaxCalls
    /\ enemy' = enemy_update(enemy)
    /\ call' = [op |-> "update", n |-> call.n + 1, before |-> enemy]
    /\ UNCHANGED <<player, lm, lives, score, level_complete_time, now,
                   levels_data, delayed, frame, ev, plats>>

NextEnemy == EnemyUpdate

SpecEnemy == EnemyInit /\ [][NextEnemy]_vars

\* C1: after every call of Enemy.update() on an enemy with
\* patrol_min <= patrol_max, whatever its speed and starting x,
\* patrol_min <= rect.x <= patrol_max.
C1_PatrolBounds ==
    (call.op = "update" /\ enemy.patrol_min <= enemy.patrol_max)
        => (enemy.patrol_min <= enemy.x /\ enemy.x <= enemy.patrol_max)

\* An enemy that started right of its range has been put on patrol_max and
\* turned left by update().
C1_Witness ==
    /\ call.op = "update"
    /\ enemy.patrol_min < enemy.patrol_max
    /\ enemy.x = enemy.patrol_max
    /\ enemy.vx10 < 0
    /\ enemy.speed10 > 10 * (enemy.patrol_max - enemy.patrol_min)

\* C29 as stated: a call of update() whose translated rect.x is below
\* patrol_min leaves x = patrol_min, vx = |speed|, facing right; one whose
\* translated rect.x is above patrol_max leaves x = patrol_max, vx = -|speed|,
\* facing left; every other call leaves vx and facing as they were and x
\* moved by vx.
C29_AsStated ==
    call.op = "update"
        => LET b == call.before
               translated == Trunc10(b.x * 10 + b.vx10)
           IN  IF translated < b.patrol_min
               THEN /\ enemy.x = b.patrol_min
                    /\ enemy.vx10 = Abs(b.speed10)
                    /\ enemy.facing_right
               ELSE IF translated > b.patrol_max
               THEN /\ enemy.x = b.patrol_max
                    /\ enemy.vx10 = -Abs(b.speed10)
                    /\ ~enemy.facing_right
               ELSE /\ enemy.vx10 = b.vx10
                    /\ enemy.facing_right = b.facing_right
                    /\ enemy.x * 10 = b.x * 10 + b.vx10

-----------------------------------------------------------------------------
(* The patrol that goes on: Enemy.update called on one enemy for ever       *)

\* The configured speeds (tenths) of a patrolling enemy: 0.5 and the speeds
\* of the level tables.
PatrolSpeeds10 == {5, 10, 15, 17, 22}

\* Enemy(x, 0, 1, 1, lo, hi, speed) with lo < hi in 0..MaxPatrol, a starting
\* x in lo..hi and a positive speed.
PatrolInit ==
    /\ ParkedGame
    /\ now = 0
    /\ player = Player(0, 0)
    /\ plats = << >>
    /\ call = NoCall
    /\ \E lo \in 0..MaxPatrol :
          \E hi \in (lo + 1)..MaxPatrol, s \in PatrolSpeeds10 :
             \E x \in lo..hi :
                enemy = Enemy(x, 0, 1, 1, lo, hi, s)

\* enemy.update(), in the frame loop; the calls are counted modulo 2.
PatrolUpdate ==
    /\ enemy' = enemy_update(enemy)
    /\ call' = [op |-> "update", n |-> (call.n + 1) % 2]
    /\ UNCHANGED <<player, lm, lives, score, level_complete_time, now,
                   levels_data, delayed, frame, ev, plats>>

NextPatrol == PatrolUpdate

\* Game.update_physics calls update() on every enemy in every frame.
SpecPatrol == PatrolInit /\ [][NextPatrol]_vars /\ WF_vars(PatrolUpdate)

\* C40 as stated: an enemy with a positive speed and patrol_min < patrol_max
\* that starts inside its range is at patrol_max infinitely often, at
\* patrol_min infinitely often, and faces each way infinitely often.
C40_AsStated ==
    /\ []<>(enemy.x = enemy.patrol_max)
    /\ []<>(enemy.x = enemy.patrol_min)
    /\ []<>enemy.facing_right
    /\ []<>(~enemy.facing_right)

-----------------------------------------------------------------------------
(* The player's methods under test: jump, apply_powerup, update_powerups,   *)
(* is_invincible and respawn called on one player                           *)

\* <<jumps_remaining, max_jumps>> of a player under test.
UnitJumps == {<<0, 1>>, <<1, 1>>, <<2, 1>>, <<0, 2>>, <<1, 2>>, <<2, 2>>}

\* The clock when the first method is called.
UnitStart == 1000

\* A player at LEVELS' first start position, rising, at rest or falling, with
\* a jump budget of UnitJumps; max_jumps = 2 goes with a double-jump window
\* that is open, jumps_remaining = 2 > max_jumps with one that has closed.
PlayerInit ==
    /\ ParkedGame
    /\ now = UnitStart
    /\ enemy = NoEnemy
    /\ plats = << >>
    /\ call = NoCall
    /\ \E jm \in UnitJumps, vy \in {BASE_JUMP * 10, 0, GRAVITY10} :
          player = [Player(80, 480) EXCEPT
                       !.jumps_remaining = jm[1],
                       !.max_jumps = jm[2],
                       !.vy10 = vy,
                       !.power_until["double_jump"] =
                           IF jm[2] = 2 THEN UnitStart + DOUBLE_JUMP_DURATION
                           ELSE IF jm[1] = 2 THEN UnitStart - 1
                           ELSE 0]

\* player.jump()
PJump ==
    /\ call.n < MaxCalls
    /\ player' = jump(player)
    /\ call' = [op |-> "jump", n |-> call.n + 1, before |-> player,
                result |-> jump_result(player)]
    /\ UNCHANGED <<lm, lives, score, level_complete_time, now,
                   levels_data, delayed, frame, ev, enemy, plats>>

\* player.apply_powerup(ptype, duration_ms, now)
PApplyPowerup ==
    /\ call.n < MaxCalls
    /\ \E ptype \in Kinds :
          \E d \in {0, 1, durations(ptype)} :
             /\ player' = apply_powerup(player, ptype, d, now)
             /\ call' = [op |-> "apply_powerup", n |-> call.n + 1, before |-> player,
                         ptype |-> ptype, duration |-> d]
    /\ UNCHANGED <<lm, lives, score, level_complete_time, now,
                   levels_data, delayed, frame, ev, enemy, plats>>

\* The ms between a call under test and the call of update_powerups that
\* follows it: none (the same now again), a frame period, or the length of a
\* power-up window.
UpdateDelays == {0} \cup FramePeriods \cup { durations(k) : k \in Kinds }

\* player.update_powerups(now); again tells that the call before it was
\* update_powerups with the same now.
PUpdatePowerups ==
    /\ call.n < MaxCalls
    /\ \E dt \in UpdateDelays :
          /\ now' = now + dt
          /\ player' = update_powerups(player, now + dt)
          /\ call' = [op |-> "update_powerups", n |-> call.n + 1, before |-> player,
                      again |-> (call.op = "update_powerups" /\ dt = 0)]
    /\ UNCHANGED <<lm, lives, score, level_complete_time,
                   levels_data, delayed, frame, ev, enemy, plats>>

\* player.is_invincible(now)
PIsInvincible ==
    /\ call.n < MaxCalls
    /\ call' = [op |-> "is_invincible", n |-> call.n + 1, before |-> player,
                result |-> is_invincible(player, now)]
    /\ UNCHANGED <<player, lm, lives, score, level_complete_time, now,
                   levels_data, delayed, frame, ev, enemy, plats>>

\* The start positions a player under test is respawned at: those of LEVELS.
RespawnArgs == { LEVELS[i].player_start : i \in 1..Len(LEVELS) }

\* player.respawn(start_x, start_y); ticks is the clock it reads.
PRespawn ==
    /\ call.n < MaxCalls
    /\ \E s \in 0..MaxSkew, start \in RespawnArgs :
          /\ player' = respawn(player, start[1], start[2], now + s)
          /\ call' = [op |-> "respawn", n |-> call.n + 1, before |-> player,
                      start |-> start, ticks |-> now + s]
    /\ UNCHANGED <<lm, lives, score, level_complete_time, now,
                   levels_data, delayed, frame, ev, enemy, plats>>

NextPlayer == PJump \/ PApplyPowerup \/ PUpdatePowerups \/ PIsInvincible \/ PRespawn

SpecPlayer == PlayerInit /\ [][NextPlayer]_vars

\* C7 as stated: after apply_powerup('double_jump', duration, now) with
\* duration > 0, jumps_remaining = 2.
C7_AsStated ==
    (call.op = "apply_powerup" /\ call.ptype = "double_jump" /\ call.duration > 0)
        => player.jumps_remaining = 2

\* C8: jump() with jumps_remaining > 0 returns True, sets vy to BASE_JUMP and
\* takes one from jumps_remaining; with jumps_remaining = 0 it returns False
\* and changes nothing.  Nothing else of the player changes in either case.
C8_Jump ==
    call.op = "jump"
        => IF call.before.jumps_remaining > 0
           THEN /\ call.result
                /\ player = [call.before EXCEPT
                                !.vy10 = BASE_JUMP * 10,
                                !.jumps_remaining = call.before.jumps_remaining - 1]
           ELSE /\ ~call.result
                /\ player = call.before

\* A second jump() right after a first that spent a budget of 1 has failed.
C8_Witness ==
    /\ call.op = "jump"
    /\ call.n >= 2
    /\ call.before.jumps_remaining = 0
    /\ call.before.vy10 = BASE_JUMP * 10
    /\ call.before.max_jumps = 1
    /\ ~call.result

\* C15: after apply_powerup(kind, duration, now), power_until[kind] is
\* now + duration, whatever the timer of that kind held before, and the
\* timers of the other kinds hold what they held before.
C15_TimerReset ==
    call.op = "apply_powerup"
        => /\ player.power_until[call.ptype] = now + call.duration
           /\ \A k \in Kinds \ {call.ptype} :
                 player.power_until[k] = call.before.power_until[k]

\* A power-up has been applied again, with a shorter duration, while the
\* timer of its kind had not expired, and a timer of another kind was set.
C15_Witness ==
    /\ call.op = "apply_powerup"
    /\ call.before.power_until[call.ptype] > now
    /\ call.duration > 0
    /\ player.power_until[call.ptype] < call.before.power_until[call.ptype]
    /\ \E k \in Kinds \ {call.ptype} : player.power_until[k] > now

\* C16: after update_powerups(now), max_jumps is 2 if now is before the
\* double-jump expiry and 1 if not, and speed is 1.8 * base_speed if now is
\* before the speed-boost expiry and base_speed if not; at now equal to an
\* expiry the effect is off.
C16_Windows ==
    call.op = "update_powerups"
        => /\ (player.max_jumps = 2) = (now < call.before.power_until["double_jump"])
           /\ (player.max_jumps = 1) = (now >= call.before.power_until["double_jump"])
           /\ (player.speed10 = BASE_SPEED * SPEED_BOOST_MULTIPLIER10)
                  = (now < call.before.power_until["speed_boost"])
           /\ (player.speed10 = BASE_SPEED * 10)
                  = (now >= call.before.power_until["speed_boost"])

\* update_powerups has been called at the expiry timestamp of a speed boost
\* that was in effect, and has put the speed back to base_speed.
C16_Witness ==
    /\ call.op = "update_powerups"
    /\ now = call.before.power_until["speed_boost"]
    /\ call.before.speed10 = BASE_SPEED * SPEED_BOOST_MULTIPLIER10
    /\ player.speed10 = BASE_SPEED * 10

\* C17: update_powerups(now) called again with the same now leaves the
\* player as the call before left it, and no call of update_powerups changes
\* jumps_remaining, a power-up timer or the hit-invincibility timer.
C17_Idempotent ==
    call.op = "update_powerups"
        => /\ call.again => player = call.before
           /\ player.jumps_remaining = call.before.jumps_remaining
           /\ player.power_until = call.before.power_until
           /\ player.hit_invincible_until = call.before.hit_invincible_until

\* update_powerups has been called again with the same now, as the third
\* call, on a player whose speed boost and double jump are in effect.
C17_Witness ==
    /\ call.op = "update_powerups"
    /\ call.again
    /\ call.n = 3
    /\ call.before.speed10 = BASE_SPEED * SPEED_BOOST_MULTIPLIER10
    /\ now < player.power_until["speed_boost"]
    /\ player.max_jumps = 2

\* C18: is_invincible(now) returns True exactly when now is before the later
\* of the invincibility power-up expiry and the hit-invincibility expiry.
C18_Invincible ==
    call.op = "is_invincible"
        => call.result =
              (now < (IF player.power_until["invincibility"] > player.hit_invincible_until
                      THEN player.power_until["invincibility"]
                      ELSE player.hit_invincible_until))

\* is_invincible has returned True on the hit-invincibility timer alone, the
\* invincibility power-up having expired at this very now.
C18_Witness ==
    /\ call.op = "is_invincible"
    /\ call.result
    /\ player.power_until["invincibility"] = now
    /\ now < player.hit_invincible_until

\* The ms after a respawn at which is_invincible is probed: the frame
\* periods across the grace window, its first two ms, its last and the first
\* after it.
GraceProbes ==
    { d \in 0..RESPAWN_INVINCIBILITY_DURATION : d % (1000 \div FPS) = 0 }
        \cup {0, 1, RESPAWN_INVINCIBILITY_DURATION - 1, RESPAWN_INVINCIBILITY_DURATION}

\* C19: after respawn(x, y) that read the clock at ticks, the float position
\* is (x, y), rect.topleft is (x, y), vx = vy = 0, is_invincible(t) is true
\* for every t with ticks <= t < ticks + 1200, and from ticks + 1200 on it is
\* true only while the invincibility power-up lasts (t taken over the offsets
\* GraceProbes from ticks).
C19_Respawn ==
    call.op = "respawn"
        => /\ player.x10 = call.start[1] * 10
           /\ player.y10 = call.start[2] * 10
           /\ <<player.rx, player.ry>> = call.start
           /\ player.vx10 = 0
           /\ player.vy10 = 0
           /\ \A d \in GraceProbes :
                 IF d < RESPAWN_INVINCIBILITY_DURATION
                 THEN is_invincible(player, call.ticks + d)
                 ELSE /\ is_invincible(player, call.ticks + d)
                            = (call.ticks + d < player.power_until["invincibility"])
                      /\ is_invincible(player, call.ticks + d + LEVEL_COMPLETE_DELAY)
                            = (call.ticks + d + LEVEL_COMPLETE_DELAY
                                  < player.power_until["invincibility"])

\* A rising player with no invincibility power-up has been respawned at
\* another place than it was.
C19_Witness ==
    /\ call.op = "respawn"
    /\ call.before.vy10 < 0
    /\ call.before.rx # call.start[1]
    /\ player.power_until["invincibility"] = 0
    /\ ~is_invincible(call.before, call.ticks)

-----------------------------------------------------------------------------
(* The level manager under test: next_level and load_level called on one    *)
(* LevelManager, between the changes the Game makes to it                   *)

\* The tables a level manager under test is constructed with.
LevelArgs == {"LEVELS", "A", "E"}

\* LevelManager(levels_data)
LevelInit ==
    /\ levels_data \in LevelArgs
    /\ lm = LevelManager(levels_data)
    /\ player = Player(lm.player_start[1], lm.player_start[2])
    /\ lives = STARTING_LIVES
    /\ score = 0
    /\ level_complete_time = None
    /\ delayed = 0
    /\ frame = 0
    /\ ev = EvNone
    /\ now = 0
    /\ enemy = NoEnemy
    /\ plats = << >>
    /\ call = NoCall

\* level_manager.next_level()
LNextLevel ==
    /\ call.n < MaxCalls
    /\ lm' = next_level(lm)
    /\ call' = [op |-> "next_level", n |-> call.n + 1, before |-> lm,
                result |-> next_level_result(lm)]
    /\ UNCHANGED <<player, lives, score, level_complete_time, now,
                   levels_data, delayed, frame, ev, enemy, plats>>

\* level_manager.load_level(index); raised tells that it raised IndexError.
LLoadLevel ==
    /\ call.n < MaxCalls
    /\ \E index \in (0 - MaxOver)..(Len(Table(lm.levels_data)) - 1 + MaxOver) :
          /\ lm' = load_level(lm, index)
          /\ call' = [op |-> "load_level", n |-> call.n + 1, before |-> lm,
                      index |-> index, raised |-> load_level_raises(lm, index)]
    /\ UNCHANGED <<player, lives, score, level_complete_time, now,
                   levels_data, delayed, frame, ev, enemy, plats>>

\* Game.check_collisions: level_manager.presents.remove(present), for the
\* first present of the level.
LCollect ==
    /\ call.n < MaxCalls
    /\ Len(lm.presents) > 0
    /\ lm' = [lm EXCEPT !.presents = Remove(lm.presents, lm.presents[1])]
    /\ call' = [op |-> "collect", n |-> call.n + 1, before |-> lm]
    /\ UNCHANGED <<player, lives, score, level_complete_time, now,
                   levels_data, delayed, frame, ev, enemy, plats>>

\* Game.handle_goal_collision: level_manager.completed = True
LComplete ==
    /\ call.n < MaxCalls
    /\ ~lm.completed
    /\ lm' = [lm EXCEPT !.completed = TRUE]
    /\ call' = [op |-> "complete", n |-> call.n + 1, before |-> lm]
    /\ UNCHANGED <<player, lives, score, level_complete_time, now,
                   levels_data, delayed, frame, ev, enemy, plats>>

NextManager == LNextLevel \/ LLoadLevel \/ LCollect \/ LComplete

SpecLevel == LevelInit /\ [][NextManager]_vars

\* C23: next_level() called at index with index + 1 < the number of levels
\* returns True, adds one to the index and leaves the level as its data
\* lists it (platforms, presents, power-ups, enemies, goal, start, total)
\* with completed = False; called at the last index it returns False and
\* leaves the manager as it was.
C23_NextLevel ==
    call.op = "next_level"
        => IF call.before.index + 1 < Len(Table(call.before.levels_data))
           THEN LET data == Table(call.before.levels_data)[call.before.index + 2]
                IN  /\ call.result
                    /\ lm.index = call.before.index + 1
                    /\ ~lm.completed
                    /\ lm.platforms = data.platforms
                    /\ lm.presents = data.presents
                    /\ lm.powerups = data.powerups
                    /\ Len(lm.enemies) = Len(data.enemies)
                    /\ \A i \in 1..Len(lm.enemies) :
                          /\ EnemyRect(lm.enemies[i]) = Rect(data.enemies[i][1], data.enemies[i][2],
                                                             data.enemies[i][3], data.enemies[i][4])
                          /\ lm.enemies[i].vx10 = data.enemies[i][7]
                    /\ lm.goal = data.goal
                    /\ lm.player_start = data.player_start
                    /\ lm.total_presents = Len(data.presents)
                    /\ <<lm.width, lm.height>> = <<data.width, data.height>>
           ELSE /\ ~call.result
                /\ lm = call.before

\* next_level() has succeeded on a completed level from which a present had
\* been removed.
C23_Witness ==
    /\ call.op = "next_level"
    /\ call.result
    /\ call.before.completed
    /\ Len(call.before.presents) < call.before.total_presents
    /\ lm.index = 1

\* C24: load_level(index) raises IndexError exactly when index < 0 or
\* index >= the number of levels, and then leaves the manager (index,
\* completed, total_presents, the level's entities) as it was; when it does
\* not raise, the index is the one asked for.
C24_LoadLevel ==
    call.op = "load_level"
        => /\ call.raised = (call.index < 0 \/ call.index >= Len(Table(lm.levels_data)))
           /\ call.raised => lm = call.before
           /\ ~call.raised => lm.index = call.index

\* load_level(-1) has raised on a manager that was at its second level,
\* completed, and has left it there.
C24_Witness ==
    /\ call.op = "load_level"
    /\ call.index = 0 - 1
    /\ call.raised
    /\ lm.index = 1
    /\ lm.completed

-----------------------------------------------------------------------------
(* The collision resolution under test: resolve_horizontal_collisions and   *)
(* resolve_vertical_collisions called on one player and one platform list   *)

\* The platforms the lists are drawn from: two that overlap each other at the
\* player's right, a floor under the player, and one at the player's left.
PlatPool ==
    { Rect(45, 10, 20, 20), Rect(40, 20, 30, 50), Rect(0, 55, 100, 10), Rect(0, -5, 15, 30) }

\* The platform lists of at most MaxPlats platforms, in every order.
PlatLists == UNION { [1..n -> PlatPool] : n \in 0..MaxPlats }

\* A player under test at x in {10, 10.5, 30} and y in {-0.4, 0, 10}, moving
\* left, right or not at all, rising, at rest or falling, with no jump left.
ResolveInit ==
    /\ ParkedGame
    /\ now = 0
    /\ enemy = NoEnemy
    /\ call = NoCall
    /\ plats \in PlatLists
    /\ \E x10 \in {100, 105, 300}, y10 \in {-4, 0, 100},
          vx \in {-BASE_SPEED * 10, 0, BASE_SPEED * 10},
          vy \in {BASE_JUMP * 10, 0, GRAVITY10, MAX_FALL * 10},
          mj \in 1..2 :
          player = [Player(0, 0) EXCEPT
                       !.x10 = x10, !.y10 = y10,
                       !.rx = Trunc10(x10), !.ry = Trunc10(y10),
                       !.vx10 = vx, !.vy10 = vy,
                       !.jumps_remaining = 0, !.max_jumps = mj]

\* player.resolve_horizontal_collisions(plats)
ResolveHorizontal ==
    /\ call.n < MaxCalls
    /\ player' = resolve_horizontal_collisions(player, plats)
    /\ call' = [op |-> "resolve_horizontal", n |-> call.n + 1, before |-> player,
                result |-> FALSE]
    /\ UNCHANGED <<lm, lives, score, level_complete_time, now,
                   levels_data, delayed, frame, ev, enemy, plats>>

\* player.resolve_vertical_collisions(plats)
ResolveVertical ==
    /\ call.n < MaxCalls
    /\ player' = resolve_vertical_collisions(player, plats).p
    /\ call' = [op |-> "resolve_vertical", n |-> call.n + 1, before |-> player,
                result |-> resolve_vertical_collisions(player, plats).on_ground]
    /\ UNCHANGED <<lm, lives, score, level_complete_time, now,
                   levels_data, delayed, frame, ev, enemy, plats>>

NextResolve == ResolveHorizontal \/ ResolveVertical

SpecResolve == ResolveInit /\ [][NextResolve]_vars

\* C10: after resolve_horizontal_collisions on a player with vx # 0, the
\* player's rectangle overlaps none of the platforms of the list that it
\* overlapped when the resolution began.
C10_NoOverlap ==
    (call.op = "resolve_horizontal" /\ call.before.vx10 # 0)
        => \A i \in 1..Len(plats) :
              colliderect(PlayerRect(call.before), plats[i])
                  => ~colliderect(PlayerRect(player), plats[i])

\* A moving player that overlapped two different platforms, which overlap
\* each other, has been resolved against them.
C10_Witness ==
    /\ call.op = "resolve_horizontal"
    /\ call.before.vx10 # 0
    /\ Len(plats) = 2
    /\ plats[1] # plats[2]
    /\ colliderect(plats[1], plats[2])
    /\ colliderect(PlayerRect(call.before), plats[1])
    /\ colliderect(PlayerRect(call.before), plats[2])
    /\ player.rx # call.before.rx

\* The player's rectangle when the loop of resolve_vertical_collisions begins
\* on the player before the last call: rect.y = int(y).
StartRect == Rect(call.before.rx, Trunc10(call.before.y10), PLAYER_WIDTH, PLAYER_HEIGHT)

\* The indices of the platforms of the list that StartRect overlaps.
Hits == { i \in 1..Len(plats) : colliderect(StartRect, plats[i]) }

\* The rect.y that the branch of the loop body taken by a player with
\* vertical velocity vy10 # 0 sets against platform plat.
SnapY(vy10, plat) == IF vy10 > 0 THEN plat.y - PLAYER_HEIGHT ELSE plat.y + plat.h

\* C11 as stated: after resolve_vertical_collisions on a moving player whose
\* rectangle overlapped several platforms of the list, rect.y is the one set
\* against the last of them in list order.
C11_AsStated ==
    (call.op = "resolve_vertical" /\ call.before.vy10 # 0 /\ Cardinality(Hits) >= 2)
        => LET last == CHOOSE i \in Hits : \A j \in Hits : j <= i
           IN  player.ry = SnapY(call.before.vy10, plats[last])

\* C11, amended: after resolve_vertical_collisions on a player with vy # 0
\* whose rectangle overlapped one or several platforms of the list, rect.y
\* (and y) is the one set against the first of them in list order and vy = 0;
\* a player with vy = 0, or one that overlapped none, is left at int(y) with
\* vy unchanged.
C11_FirstMatch ==
    call.op = "resolve_vertical"
        => IF call.before.vy10 # 0 /\ Hits # {}
           THEN LET first == CHOOSE i \in Hits : \A j \in Hits : i <= j
                IN  /\ player.ry = SnapY(call.before.vy10, plats[first])
                    /\ player.y10 = player.ry * 10
                    /\ player.vy10 = 0
           ELSE /\ player.ry = StartRect.y
                /\ player.y10 = call.before.y10
                /\ player.vy10 = call.before.vy10

\* A falling player that overlapped two platforms with different tops has
\* been put on the first of the list, not on the second.
C11_Witness ==
    /\ call.op = "resolve_vertical"
    /\ call.before.vy10 > 0
    /\ Len(plats) = 2
    /\ Hits = {1, 2}
    /\ plats[1].y # plats[2].y
    /\ player.ry = plats[1].y - PLAYER_HEIGHT
    /\ player.ry # plats[2].y - PLAYER_HEIGHT

\* C31: after resolve_vertical_collisions on a player moving up (vy < 0)
\* whose rectangle overlapped a platform of the list, the rectangle's top is
\* at the bottom of the platform it hit, y follows, vy = 0, jumps_remaining
\* and max_jumps are what they were, and the call reports not on ground.
C31_Ceiling ==
    (call.op = "resolve_vertical" /\ call.before.vy10 < 0 /\ Hits # {})
        => LET first == CHOOSE i \in Hits : \A j \in Hits : i <= j
           IN  /\ PlayerRect(player).y = plats[first].y + plats[first].h
               /\ player.y10 = (plats[first].y + plats[first].h) * 10
               /\ player.vy10 = 0
               /\ player.jumps_remaining = call.before.jumps_remaining
               /\ player.max_jumps = call.before.max_jumps
               /\ ~call.result

\* A rising player with no jump left has hit the bottom of a platform and
\* has been moved down by it.
C31_Witness ==
    /\ call.op = "resolve_vertical"
    /\ call.before.vy10 < 0
    /\ Hits # {}
    /\ call.before.jumps_remaining = 0
    /\ player.jumps_remaining < player.max_jumps
    /\ player.vy10 = 0
    /\ player.ry > call.before.ry

=============================================================================
